---- MODULE Spec2Model ----
(***************************************************************************)
(* Offline persistence and synchronisation of the field data-collection    *)
(* application.                                                            *)
(*                                                                         *)
(* Two independent subsystems are modelled, each over its own IndexedDB    *)
(* database, and each under its own specification:                         *)
(*                                                                         *)
(*   Spec    the queue-based engine: SyncManager (utils/syncManager.js)    *)
(*           draining the sync-queue store of db/index.js;                 *)
(*   SpecSS  the status-based engine: SyncService (services/syncService,   *)
(*           held in formTemplateService.js) with formDataService and      *)
(*           mediaUploadServices (both held in mediaUploadServices.js).    *)
(*                                                                         *)
(* JavaScript runs one task at a time; a task gives way to other tasks     *)
(* only at an await.  One action of the model is one run of a task from    *)
(* an await to the next one that matters.                                  *)
(***************************************************************************)
EXTENDS Integers, Sequences, FiniteSets, TLC

\* ------------------------------------------------------------------ bounds
MaxForms  == 2      \* form submissions made through FormContext.submitForm
MaxMedia  == 1      \* media records saved through MediaDAO.saveMedia
MaxDrains == 3      \* completed drain cycles that are counted
MaxSubs   == 1      \* submissions made through formDataService.submitForm
MaxUploads == 1     \* media stored through mediaUploadServices.storeMedia
MaxChunks == 2      \* chunks of one stored media
MaxFailures == 2    \* requests of the status-based engine that fail
MaxOwned == 2       \* media of the one submission queued in scenario A
MaxItems == 3       \* sync-queue records added through the DAO alone
MaxUpdates == 2     \* updateStatus calls on one record made through the DAO alone
ChunkBytes == 2     \* bytes of one chunk (CHUNK_SIZE, 1 MiB in the program)
MaxJpegBytes == 3   \* largest output of the JPEG encoder of compressImage
MaxFetches == 1     \* fetch events handled by the service worker, any request
MaxReads == 3       \* fetch events handled when all of them are reads that are cached
MaxInits == 2       \* calls of SyncService.init made by the effect of App
MaxMessages == 2    \* messages of the worker delivered to the page
MaxCycles == 1      \* sync cycles started by the page
MaxWrites == 1      \* fetch events handled when all of them are mutations made offline
MaxRefreshCalls == 3 \* calls of refreshAccessToken
MaxLogins == 2      \* logins that store tokens
MaxApiCalls == 1    \* calls of EnhancedApiService.request
MaxRetriesOption == 5 \* largest value of the option retries of request
MaxEdits == 2       \* field changes made in the open form
MaxDrafts == 2      \* draft ids given out by the drafts store
MaxSubmits == 1     \* submits of the open form
MaxSyncEvents == 4  \* sync events fired by the browser, all tags together

\* -------------------------------------------------------- program constants
BATCH_SIZE         == 10
MAX_RETRY_ATTEMPTS == 3
SUBMISSION_RETRY_LIMIT == 5
UPLOAD_RETRY_LIMIT == 5
CHUNK_SEND_RETRIES == 3
SYNC_FORMS_MAX_RETRIES == 5
SYNC_MEDIA_MAX_RETRIES == 3
SYNC_DEFAULT_MAX_RETRIES == 5
LOG_LIMIT == 10
BACKOFF_BASE_MS == 1000
BACKOFF_CAP_MS == 10000

VARIABLES
    online,        \* navigator.onLine
    \* --- db/index.js stores
    queue,         \* sync-queue store: sequence indexed by the auto-increment id
    formData,      \* form-data store: sequence of [submitted]
    media,         \* media store: sequence of [formDataId, serverUrl]
    \* --- SyncManager instance
    smIsSyncing,   \* this.isSyncing
    smTimer,       \* a debounce timeout of scheduleSync is pending
    smPc,          \* position of the drain cycle's async body
    smBatch,       \* the batch being processed: id -> [att, pc]
    \* --- observations
    smEv,          \* events notified by the current (or last) cycle
    smActive,      \* number of drain-cycle bodies that started and have not ended
    smDrains,      \* drain cycles completed with an item rejected by the server in the queue
    smTouched,     \* the running cycle wrote a queue record or sent a request
    smJoined,      \* a syncAll() call found the running cycle and returned its promise
    posts,         \* number of submission POSTs sent per form-data id
    \* --- formDataService / mediaUploadServices stores
    subs,          \* submissions store: sequence of [status, syncRetries, wait]
    mstore,        \* media store of media-uploads: sequence of [status, owner]
    upq,           \* upload-queue store: [status, retryCount, wait, totalChunks]
    acked,         \* per media, the chunk indices the server has acknowledged
    \* --- SyncService instance and the tasks that drain
    ssIsSyncing,   \* this.isSyncing
    ssPendingSync, \* this.pendingSync
    ssTimer,       \* a debounce timeout of scheduleSync is pending
    task,          \* the running async tasks: syncAll, and a second task
    \* --- observations
    ssEv,          \* events notified by the current (or last) syncAll
    ssActive,      \* syncAll bodies that started and have not ended
    ssJoined,      \* a sync was requested while the current cycle was running
    fails,         \* number of requests that failed so far
    \* --- direct use of SyncQueueDAO
    dao,           \* the last DAO call: its arguments, the record before it, its result
    \* --- storeMedia and getMediaFile of mediaUploadServices, one media in detail
    stFile,        \* the File given to storeMedia: [type, bytes]
    processedFile, \* the File that is stored: the given one, or its compression
    mediaRec,      \* the record of the media store: [type, size, status]
    chunkRecs,     \* the records of the chunks store: chunkIndex -> [data, size]
    queueRec,      \* the record of the upload-queue store: [status, retryCount, totalChunks]
    stPc,          \* position of storeMedia's async body
    stI,           \* the loop variable i of storeMedia
    gotFile,       \* the File returned by getMediaFile: [type, bytes]
    \* --- the service worker (public/service-worker.js)
    swPhase,       \* lifecycle of the worker version: parsed, installed, active
    swCaches,      \* CacheStorage: cache name -> (path -> status of the response held)
    requests,      \* store 'requests' of fse-offline-requests: id -> record
    swNextId,      \* the next auto-increment key of the requests store
    syncTags,      \* the sync tags registered and not yet fired
    syncAttempts,  \* the Map syncAttempts: tag -> count
    backoff,       \* the tags with a pending retry timeout
    reply,         \* the outcome of the last fetch event, as the page gets it
    posted,        \* the messages posted to the clients: set of [type, tag]
    swFetches,     \* number of fetch events handled
    \* --- the page: App, SyncStatusIndicator and the listeners of SyncService
    listeners,     \* SyncService.listeners: sequence of listener names
    msgListeners,  \* message listeners added by SyncService.setupMessageListener
    appMounted,    \* the effect of App has run: its message listener is registered
    toast,         \* state toast of App
    syncEvents,    \* state syncEvents of App: the log, newest first
    syncStatus,    \* state syncStatus of SyncStatusIndicator
    heard,         \* per listener, the calls it got in the last dispatch
    uiDispatch,    \* the last dispatch: [from, type, timestamp, to], to: the listeners then
    uiSnap,        \* the state of the page before the last worker message
    uiDup,         \* the last worker message was the one before, delivered again
    uiCycle,       \* the sync cycle of the page: idle, running, completed, failed, aborted
    uiCount,       \* [msgs, cycles]: worker messages delivered, cycles started
    \* --- EnhancedApiService instance
    accessToken,   \* this.accessToken
    refreshToken,  \* this.refreshToken
    tokenRefreshPromise, \* this.tokenRefreshPromise: NoPromise or a promise
    promises,      \* the promises made by refreshAccessToken, each with its state
    refreshInFlight, \* POST auth/refresh requests sent and not yet answered
    refreshCalls,  \* the calls of refreshAccessToken, in order
    logins,        \* logins that stored tokens
    rq,            \* one call of EnhancedApiService.request: its locals and what it did
    \* --- the open form: FormProvider or FormRenderer, and its stores
    draftStore,    \* store drafts: the ids of the drafts held
    savedForms,    \* records written by the submit: form-data or submissions store
    savedQueue,    \* sync-queue entries written by submitForm of FormProvider
    form,          \* the state of the form component
    autosave,      \* the pending autosave timer: [armed, draftId]
    \* --- the sync events of the worker, as observed
    swLog          \* tag -> [fired, ran, gaveUp, failed]: sync events fired, calls of
                   \* processSyncEvent, 'Max retries exceeded' posted, runs in which a
                   \* queued request was sent and failed

smVars == <<queue, formData, media, smIsSyncing, smTimer, smPc, smBatch,
            smEv, smActive, smDrains, smTouched, smJoined, posts>>
ssData == <<subs, mstore, upq, acked, fails>>
ssCtl == <<ssIsSyncing, ssPendingSync, ssTimer, ssEv, ssActive, ssJoined>>
ssVars == <<ssData, ssCtl, task>>
envVars == <<online>>
daoVars == <<dao>>
storeVars == <<stFile, processedFile, mediaRec, chunkRecs, queueRec, stPc, stI, gotFile>>
swVars == <<swPhase, swCaches, requests, swNextId, syncTags, syncAttempts, backoff,
            reply, posted, swFetches>>
uiVars == <<listeners, msgListeners, appMounted, toast, syncEvents, syncStatus,
            heard, uiDispatch, uiSnap, uiDup, uiCycle, uiCount>>
authVars == <<accessToken, refreshToken, tokenRefreshPromise, promises,
              refreshInFlight, refreshCalls, logins>>
reqVars == <<rq>>
formVars == <<draftStore, savedForms, savedQueue, form, autosave>>
logVars == <<swLog>>
extVars == <<swVars, uiVars, authVars, reqVars, formVars, logVars>>
notSM == <<ssVars, daoVars, storeVars, extVars>>
notSS == <<smVars, daoVars, storeVars, extVars>>
vars == <<envVars, smVars, ssVars, daoVars, storeVars, extVars>>

Min(a, b) == IF a < b THEN a ELSE b

\* ======================================================================
\* db/index.js : SyncQueueDAO
\* ======================================================================

\* addToQueue: db.add of the caller's fields, with status pending and attempts 0
\* whatever the caller gave
AddToQueueWithPriority(q, type, ref, priority) ==
    Append(q, [type |-> type, ref |-> ref, status |-> "pending",
               attempts |-> 0, lastError |-> "none", priority |-> priority])

\* addToQueue as FormContext and SyncManager call it: no priority field
AddToQueue(q, type, ref) == AddToQueueWithPriority(q, type, ref, "none")

\* index('status').getAll('pending', limit): the pending records in key order
RECURSIVE PendingFrom(_, _, _)
PendingFrom(q, i, limit) ==
    IF i > Len(q) \/ limit = 0 THEN {}
    ELSE IF q[i].status = "pending"
         THEN {i} \cup PendingFrom(q, i + 1, limit - 1)
         ELSE PendingFrom(q, i + 1, limit)

\* variant: records in status error are selected again
PendingOrError(q, limit) ==
    PendingFrom(q, 1, limit) \cup {i \in DOMAIN q : q[i].status = "error"}

\* variant: the status index is not consulted
AnyStatus(q, limit) == {i \in DOMAIN q : i <= limit}

GetNextBatch(q, limit) == PendingFrom(q, 1, limit)

\* updateStatus: sets the status, adds one to attempts on every call, records
\* the error when one is given
UpdateStatus(q, id, status, error) ==
    IF id \in DOMAIN q
    THEN [q EXCEPT ![id] = [@ EXCEPT !.status = status,
                                     !.attempts = @ + 1,
                                     !.lastError = IF error = "none" THEN @ ELSE error]]
    ELSE q

\* ======================================================================
\* utils/syncManager.js : SyncManager
\* ======================================================================

\* variant: no guard
SyncAllAlwaysStarts(isSyncing) == TRUE

\* the guard at the head of syncAll
SyncAllMayStart(isSyncing) == ~isSyncing

\* the media of a form-data record that have no server url yet, in key order
MediaNotUploaded(f) == {m \in DOMAIN media : media[m].formDataId = f /\ ~media[m].serverUrl}

SetMin(S) == CHOOSE x \in S : \A y \in S : x <= y

\* variant: the flag is not released
SM_FinallyKeepsFlag ==
    /\ smIsSyncing' = smIsSyncing
    /\ smPc' = "idle"
    /\ smActive' = smActive - 1

\* the finally block of syncAll
SM_Finally ==
    /\ smIsSyncing' = FALSE
    /\ smPc' = "idle"
    /\ smActive' = smActive - 1

\* syncAll(): returns the running promise when a cycle is active, else starts one
SM_SyncAllCall ==
    IF SyncAllMayStart(smIsSyncing)
    THEN /\ smIsSyncing' = TRUE
         /\ smEv' = <<"syncStarted">>
         /\ smPc' = "probe"
         /\ smBatch' = << >>
         /\ smActive' = smActive + 1
         /\ smTouched' = FALSE
         /\ smJoined' = FALSE
    ELSE /\ smJoined' = TRUE
         /\ UNCHANGED <<smIsSyncing, smEv, smPc, smBatch, smActive, smTouched>>

\* scheduleSync(): clear the pending timeout and set a new one
SM_ScheduleSync ==
    /\ smTimer' = TRUE
    /\ UNCHANGED <<queue, formData, media, smIsSyncing, smPc, smBatch, smEv,
                   smActive, smDrains, smTouched, smJoined, posts>>

\* window 'online' event: handleOnline and the listener of initOfflineCapability
SM_HandleOnline ==
    /\ ~online
    /\ online' = TRUE
    /\ SM_ScheduleSync

\* the device loses its connection
SM_GoOffline ==
    /\ online
    /\ online' = FALSE
    /\ UNCHANGED smVars

\* service worker message SYNC_REQUESTED
SM_WorkerMessage ==
    /\ SM_ScheduleSync
    /\ UNCHANGED envVars

\* the debounce timeout fires: syncAll()
SM_TimerFires ==
    /\ smTimer
    /\ smTimer' = FALSE
    /\ SM_SyncAllCall
    /\ UNCHANGED <<envVars, queue, formData, media, smDrains, posts>>

\* a direct call of syncAll()
SM_ManualSync ==
    /\ SM_SyncAllCall
    /\ UNCHANGED <<envVars, queue, formData, media, smTimer, smDrains, posts>>

\* FormContext.submitForm: save the form data, then enqueue a FORM_SUBMISSION
SubmitForm ==
    /\ Len(formData) < MaxForms
    /\ formData' = Append(formData, [submitted |-> FALSE])
    /\ queue' = AddToQueue(queue, "FORM_SUBMISSION", Len(formData) + 1)
    /\ UNCHANGED <<envVars, media, smIsSyncing, smTimer, smPc, smBatch, smEv,
                   smActive, smDrains, smTouched, smJoined, posts>>

\* MediaDAO.saveMedia: db.add of the record the caller built
SaveMedia ==
    /\ Len(media) < MaxMedia
    /\ \E f \in 0..Len(formData), url \in BOOLEAN :
          /\ f > 0 => ~formData[f].submitted
          /\ media' = Append(media, [formDataId |-> f, serverUrl |-> url])
    /\ UNCHANGED <<envVars, queue, formData, smIsSyncing, smTimer, smPc, smBatch,
                   smEv, smActive, smDrains, smTouched, smJoined, posts>>

\* variant: the cycle goes on after notifying that the API is not reachable
SM_ProbeGoesOn ==
    /\ smPc = "probe"
    /\ \E reachable \in (IF online THEN BOOLEAN ELSE {FALSE}) :
          /\ smPc' = "fetch"
          /\ smEv' = IF reachable THEN smEv ELSE Append(smEv, "syncFailed:unreachable")
          /\ UNCHANGED <<smIsSyncing, smActive>>
    /\ UNCHANGED <<envVars, queue, formData, media, smTimer, smBatch, smDrains,
                   smTouched, smJoined, posts>>

\* checkApiConnection() answered: not reachable -> syncFailed and return
SM_Probe ==
    /\ smPc = "probe"
    /\ \E reachable \in (IF online THEN BOOLEAN ELSE {FALSE}) :
          IF reachable
          THEN /\ smPc' = "fetch"
               /\ UNCHANGED <<smIsSyncing, smEv, smActive>>
          ELSE /\ smEv' = Append(smEv, "syncFailed:unreachable")
               /\ SM_Finally
    /\ UNCHANGED <<envVars, queue, formData, media, smTimer, smBatch, smDrains,
                   smTouched, smJoined, posts>>

\* the queue items whose last error is a refusal of the server
Rejected == {i \in DOMAIN queue : queue[i].status = "error" /\ queue[i].lastError = "http"}

\* one turn of the while loop: getNextBatch, then either the end of the cycle
\* (empty batch: syncCompleted) or the start of the batch's processItem calls
SM_Fetch ==
    /\ smPc = "fetch"
    /\ LET ids == GetNextBatch(queue, BATCH_SIZE) IN
          IF ids = {}
          THEN /\ smEv' = Append(smEv, "syncCompleted")
               /\ smDrains' = IF Rejected # {} THEN Min(smDrains + 1, MaxDrains)
                              ELSE smDrains
               /\ SM_Finally
               /\ UNCHANGED smBatch
          ELSE /\ smBatch' = [i \in ids |-> [att |-> queue[i].attempts, pc |-> "start"]]
               /\ smPc' = "batch"
               /\ UNCHANGED <<smIsSyncing, smEv, smActive, smDrains>>
    /\ UNCHANGED <<envVars, queue, formData, media, smTimer, smTouched, smJoined, posts>>

\* the store rejects getNextBatch: the catch of syncAll notifies syncFailed
SM_FetchThrows ==
    /\ smPc = "fetch"
    /\ smEv' = Append(smEv, "syncFailed:error")
    /\ SM_Finally
    /\ UNCHANGED <<envVars, queue, formData, media, smTimer, smBatch, smDrains,
                   smTouched, smJoined, posts>>

SetPc(i, pc) == smBatch' = [smBatch EXCEPT ![i].pc = pc]

\* processItem, first step: the retry check, then updateStatus(processing)
SM_ItemStart(i) ==
    /\ smBatch[i].pc = "start"
    /\ IF smBatch[i].att >= MAX_RETRY_ATTEMPTS
       THEN /\ queue' = UpdateStatus(queue, i, "failed", "max")
            /\ SetPc(i, "ok")
       ELSE /\ queue' = UpdateStatus(queue, i, "processing", "none")
            /\ SetPc(i, "run")
    /\ smTouched' = TRUE
    /\ UNCHANGED <<envVars, formData, media, smIsSyncing, smTimer, smPc, smEv,
                   smActive, smDrains, smJoined, posts>>

\* syncFormSubmission: media check, POST of the submission, markAsSubmitted
SM_ItemForm(i) ==
    /\ smBatch[i].pc = "run"
    /\ queue[i].type = "FORM_SUBMISSION"
    /\ LET f == queue[i].ref IN
       IF MediaNotUploaded(f) # {}
       THEN \* addToQueue for the first media found without a url, then throw
            /\ queue' = AddToQueue(queue, "MEDIA_UPLOAD", SetMin(MediaNotUploaded(f)))
            /\ smTimer' = IF online THEN TRUE ELSE smTimer
            /\ SetPc(i, "catchMedia")
            /\ UNCHANGED <<formData, posts>>
       ELSE /\ posts' = [posts EXCEPT ![f] = @ + 1]
            /\ \E ok \in (IF online THEN BOOLEAN ELSE {FALSE}) :
                 IF ok
                 THEN /\ formData' = [formData EXCEPT ![f].submitted = TRUE]
                      /\ SetPc(i, "fin")
                 ELSE /\ SetPc(i, "catchHttp")
                      /\ UNCHANGED formData
            /\ UNCHANGED <<queue, smTimer>>
    /\ smTouched' = TRUE
    /\ UNCHANGED <<envVars, media, smIsSyncing, smPc, smEv, smActive, smDrains, smJoined>>

\* syncMediaUpload: MediaDAO has no getMedia, the call throws a TypeError
SM_ItemMedia(i) ==
    /\ smBatch[i].pc = "run"
    /\ queue[i].type = "MEDIA_UPLOAD"
    /\ SetPc(i, "catchType")
    /\ UNCHANGED <<envVars, queue, formData, media, smIsSyncing, smTimer, smPc,
                   smEv, smActive, smDrains, smTouched, smJoined, posts>>

\* processItem, success: updateStatus(completed)
SM_ItemFin(i) ==
    /\ smBatch[i].pc = "fin"
    /\ queue' = UpdateStatus(queue, i, "completed", "none")
    /\ SetPc(i, "ok")
    /\ smTouched' = TRUE
    /\ UNCHANGED <<envVars, formData, media, smIsSyncing, smTimer, smPc, smEv,
                   smActive, smDrains, smJoined, posts>>

ErrorOf(pc) == CASE pc = "catchMedia" -> "media"
                 [] pc = "catchHttp"  -> "http"
                 [] OTHER             -> "type"

\* processItem, catch: updateStatus(error, message) and rethrow
SM_ItemCatch(i) ==
    /\ smBatch[i].pc \in {"catchMedia", "catchHttp", "catchType"}
    /\ queue' = UpdateStatus(queue, i, "error", ErrorOf(smBatch[i].pc))
    /\ SetPc(i, "rej")
    /\ smTouched' = TRUE
    /\ UNCHANGED <<envVars, formData, media, smIsSyncing, smTimer, smPc, smEv,
                   smActive, smDrains, smJoined, posts>>

SM_Item ==
    /\ smPc = "batch"
    /\ \E i \in DOMAIN smBatch :
          \/ SM_ItemStart(i)
          \/ SM_ItemForm(i)
          \/ SM_ItemMedia(i)
          \/ SM_ItemFin(i)
          \/ SM_ItemCatch(i)

\* Promise.allSettled resolved: back to the head of the while loop
SM_Settle ==
    /\ smPc = "batch"
    /\ \A i \in DOMAIN smBatch : smBatch[i].pc \in {"ok", "rej"}
    /\ smBatch' = << >>
    /\ smPc' = "fetch"
    /\ UNCHANGED <<envVars, queue, formData, media, smIsSyncing, smTimer, smEv,
                   smActive, smDrains, smTouched, smJoined, posts>>

SM_Cycle == SM_Probe \/ SM_Fetch \/ SM_FetchThrows \/ SM_Item \/ SM_Settle

\* the task of syncAll, and one more task at a time that works on the same
\* stores: a worker-message handler, a processUploadQueue call or submitForm
TaskIds == {"cycle", "aux"}
NoSnap == [syncRetries |-> 0, wait |-> FALSE]
IdleTask == [pc |-> "idle", kind |-> "none", todo |-> {}, cur |-> 0,
             snap |-> NoSnap, ups |-> << >>]

NoCall == [op |-> "none", id |-> 0, status |-> "none", attempts |-> 0,
           was |-> "none", limit |-> 0, out |-> << >>]

NoFile == [type |-> "none", bytes |-> << >>]

\* the subscribers of SyncService: handleSyncEvent of App, handleSyncEvent of
\* SyncStatusIndicator, and a subscriber whose handler throws
ListenerNames == {"app", "indicator", "other"}
NoDispatch == [from |-> "none", type |-> "none", timestamp |-> 0, to |-> {}]
NoRecord == [status |-> "none"]
NoRequest == [path |-> "none", method |-> "none", dest |-> "none", ctype |-> "none",
              sameOrigin |-> TRUE]
NoCache == [prefix |-> "none", kind |-> "none", version |-> "none"]
NoReply == [req |-> NoRequest, handler |-> "none", cache |-> NoCache, net |-> "none",
            online |-> FALSE, kind |-> "none", status |-> 0, wrote |-> FALSE,
            before |-> 0, copy |-> 0, queued |-> 0]

\* the stores are empty and both engines are as their constructors leave them
\* the form component before a form is opened, and no autosave timer
NoDraft == 0
ClosedForm ==
    [pc |-> "closed", impl |-> "none", y |-> FALSE, draftId |-> NoDraft,
     filled |-> FALSE, closureDraft |-> NoDraft, removed |-> NoDraft,
     edits |-> 0, submits |-> 0, ids |-> 0]
NoTimer == [armed |-> FALSE, draftId |-> NoDraft]

\* the tags of the sync events: those of the worker, and those that only the
\* page registers
AllSyncTags == {"sync-forms", "sync-media", "sync-general", "form-sync",
                "media-upload-sync"}
NoLog == [tag \in AllSyncTags |-> [fired |-> 0, ran |-> 0, gaveUp |-> 0, failed |-> 0]]

\* request() before it is called
IdleRequest ==
    [pc |-> "idle", calls |-> 0, retries |-> 0, requireAuth |-> FALSE,
     attempts |-> 0, statuses |-> <<>>, refreshes |-> 0, waits |-> <<>>,
     awaiting |-> 0, aborted |-> FALSE, result |-> "none"]

Constructed ==
    /\ queue = << >>
    /\ formData = << >>
    /\ media = << >>
    /\ smIsSyncing = FALSE
    /\ smPc = "idle"
    /\ smBatch = << >>
    /\ smEv = << >>
    /\ smActive = 0
    /\ smDrains = 0
    /\ smTouched = FALSE
    /\ smJoined = FALSE
    /\ posts = [f \in 1..MaxForms |-> 0]
    /\ subs = << >>
    /\ mstore = << >>
    /\ upq = << >>
    /\ acked = << >>
    /\ fails = 0
    /\ ssIsSyncing = FALSE
    /\ task = [t \in TaskIds |-> IdleTask]
    /\ ssEv = << >>
    /\ ssActive = 0
    /\ ssJoined = FALSE
    /\ dao = NoCall
    /\ stFile = NoFile
    /\ processedFile = NoFile
    /\ mediaRec = NoRecord
    /\ chunkRecs = << >>
    /\ queueRec = NoRecord
    /\ stPc = "idle"
    /\ stI = 0
    /\ gotFile = NoFile
    /\ swPhase = "parsed"
    /\ swCaches = << >>
    /\ requests = << >>
    /\ swNextId = 1
    /\ syncTags = {}
    /\ syncAttempts = << >>
    /\ backoff = {}
    /\ reply = NoReply
    /\ posted = {}
    /\ swFetches = 0
    /\ listeners = << >>
    /\ msgListeners = 0
    /\ appMounted = FALSE
    /\ toast = "none"
    /\ syncEvents = << >>
    /\ syncStatus = [isSyncing |-> FALSE, lastSyncTime |-> 0]
    /\ heard = [l \in ListenerNames |-> 0]
    /\ uiDispatch = NoDispatch
    /\ uiSnap = << >>
    /\ uiDup = FALSE
    /\ uiCycle = "idle"
    /\ uiCount = [msgs |-> 0, cycles |-> 0]
    /\ accessToken = "none"
    /\ refreshToken = "none"
    /\ tokenRefreshPromise = 0
    /\ promises = <<>>
    /\ refreshInFlight = 0
    /\ refreshCalls = <<>>
    /\ logins = 0
    /\ rq = IdleRequest
    /\ draftStore = {}
    /\ savedForms = 0
    /\ savedQueue = 0
    /\ form = ClosedForm
    /\ autosave = NoTimer
    /\ swLog = NoLog

\* SyncManager.init(): a first sync is scheduled when the device is online
Init ==
    /\ online \in BOOLEAN
    /\ Constructed
    /\ smTimer = online
    /\ ssPendingSync = FALSE
    /\ ssTimer = FALSE

Next ==
    \/ SM_HandleOnline /\ UNCHANGED notSM
    \/ SM_GoOffline /\ UNCHANGED notSM
    \/ SM_WorkerMessage /\ UNCHANGED notSM
    \/ SM_TimerFires /\ UNCHANGED notSM
    \/ SM_ManualSync /\ UNCHANGED notSM
    \/ SubmitForm /\ UNCHANGED notSM
    \/ SaveMedia /\ UNCHANGED notSM
    \/ SM_Probe /\ UNCHANGED notSM
    \/ SM_Fetch /\ UNCHANGED notSM
    \/ SM_FetchThrows /\ UNCHANGED notSM
    \/ SM_Item /\ UNCHANGED notSM
    \/ SM_Settle /\ UNCHANGED notSM

Spec == Init /\ [][Next]_vars

\* the application stops and is started again: the stores keep what was
\* written, the SyncManager is constructed anew and init() runs
SM_Restart ==
    /\ smIsSyncing' = FALSE
    /\ smPc' = "idle"
    /\ smBatch' = << >>
    /\ smEv' = << >>
    /\ smActive' = 0
    /\ smTouched' = FALSE
    /\ smJoined' = FALSE
    /\ smTimer' = online
    /\ UNCHANGED <<envVars, queue, formData, media, smDrains, posts>>

NextR ==
    \/ Next
    \/ SM_Restart /\ UNCHANGED notSM

SpecR == Init /\ [][NextR]_vars

\* Scenario A: one submission with up to MaxOwned media, at least one of them
\* not uploaded, has been saved and queued (FormContext.submitForm after
\* MediaDAO.saveMedia); the engine then drains the queue
InitA ==
    /\ online \in BOOLEAN
    /\ Constructed
    /\ smTimer = online
    /\ ssPendingSync = FALSE
    /\ ssTimer = FALSE

\* the stores of scenario A are filled in one step: the records are written
\* before the engine sees the queue item
A_Setup ==
    /\ formData = << >>
    /\ ~smIsSyncing
    /\ \E n \in 1..MaxOwned : \E urls \in [1..n -> BOOLEAN] :
          /\ \E m \in 1..n : ~urls[m]
          /\ media' = [m \in 1..n |-> [formDataId |-> 1, serverUrl |-> urls[m]]]
    /\ formData' = <<[submitted |-> FALSE]>>
    /\ queue' = AddToQueue(queue, "FORM_SUBMISSION", 1)
    /\ UNCHANGED <<envVars, smIsSyncing, smTimer, smPc, smBatch, smEv,
                   smActive, smDrains, smTouched, smJoined, posts>>

NextA ==
    \/ A_Setup /\ UNCHANGED notSM
    \/ SM_HandleOnline /\ UNCHANGED notSM
    \/ SM_GoOffline /\ UNCHANGED notSM
    \/ SM_WorkerMessage /\ UNCHANGED notSM
    \/ SM_TimerFires /\ UNCHANGED notSM
    \/ SM_ManualSync /\ UNCHANGED notSM
    \/ SM_Probe /\ UNCHANGED notSM
    \/ SM_Fetch /\ UNCHANGED notSM
    \/ SM_FetchThrows /\ UNCHANGED notSM
    \/ SM_Item /\ UNCHANGED notSM
    \/ SM_Settle /\ UNCHANGED notSM

SpecA == InitA /\ [][NextA]_vars

\* ======================================================================
\* services/syncService (SyncService), formDataService, mediaUploadServices
\* ======================================================================

SetTask(t, r) == task' = [task EXCEPT ![t] = r]

\* where a task goes when its list of pending submissions is used up: syncAll
\* goes on to syncMedia, the SYNC_FORMS handler is done
AfterForms(tk) ==
    IF tk.todo # {} THEN [tk EXCEPT !.pc = "sub"]
    ELSE IF tk.kind = "all" THEN [tk EXCEPT !.pc = "media", !.cur = 0, !.snap = NoSnap]
    ELSE IdleTask

\* getPendingSubmissions: status pending and no nextRetry in the future
PendingSubmissions == {s \in DOMAIN subs : subs[s].status = "pending" /\ ~subs[s].wait}

\* processUploadQueue: status pending and no nextRetry in the future
PendingUploads == {m \in DOMAIN upq : upq[m].status = "pending" /\ ~upq[m].wait}

\* the status written with the retry counter r by updateSubmissionRetry
RetryStatus(r) == IF r >= SUBMISSION_RETRY_LIMIT THEN "failed" ELSE "pending"

\* the status written with the retry counter r by the catch of uploadMedia
UploadRetryStatus(r) == IF r >= UPLOAD_RETRY_LIMIT THEN "failed" ELSE "pending"

\* variant: a chunk the server refused does not stop the upload
ChunkNeverRefused(ok) == FALSE

\* uploadMedia: if (!response.ok) throw
ChunkRefused(ok) == ~ok

\* the answers a request can get: none but a failure while offline, and a
\* failure only while the failure budget lasts
Answers == {ok \in BOOLEAN : (ok => online) /\ (~ok => fails < MaxFailures)}

CountFailure(ok) == fails' = IF ok THEN fails ELSE fails + 1

\* scheduleSync() of SyncService
SS_ScheduleSync ==
    /\ ssPendingSync' = TRUE
    /\ ssTimer' = TRUE

\* the finally block of SyncService.syncAll
SS_Finally ==
    /\ ssIsSyncing' = FALSE
    /\ ssActive' = ssActive - 1
    /\ IF ssPendingSync THEN SS_ScheduleSync ELSE UNCHANGED <<ssPendingSync, ssTimer>>

\* SyncService.syncAll(): up to the first await
SS_SyncAllCall ==
    IF ssIsSyncing
    THEN /\ ssJoined' = TRUE
         /\ UNCHANGED <<ssIsSyncing, ssPendingSync, ssEv, ssActive, task>>
    ELSE /\ ssPendingSync' = FALSE
         /\ ssJoined' = FALSE
         /\ IF ~online
            THEN /\ ssEv' = <<"syncStarted", "syncFailed:offline">>
                 /\ UNCHANGED <<ssIsSyncing, ssActive, task>>
            ELSE /\ ssEv' = <<"syncStarted">>
                 /\ ssIsSyncing' = TRUE
                 /\ ssActive' = ssActive + 1
                 /\ SetTask("cycle", [IdleTask EXCEPT !.pc = "forms", !.kind = "all"])

\* the debounce timeout fires: syncAll()
SS_TimerFires ==
    /\ ssTimer
    /\ ssTimer' = FALSE
    /\ SS_SyncAllCall
    /\ UNCHANGED <<envVars, ssData>>

\* a direct call of syncAll() (SyncStatusIndicator, app.jsx)
SS_ManualSync ==
    /\ SS_SyncAllCall
    /\ UNCHANGED <<envVars, ssData, ssTimer>>

\* triggerSync() (FormRenderer.handleSubmit)
SS_TriggerSync ==
    /\ IF ssIsSyncing
       THEN /\ ssPendingSync' = TRUE
            /\ ssJoined' = TRUE
            /\ UNCHANGED <<ssIsSyncing, ssEv, ssActive, task>>
       ELSE SS_SyncAllCall
    /\ UNCHANGED <<envVars, ssData, ssTimer>>

\* window 'online' event: handleOnline
SS_HandleOnline ==
    /\ ~online
    /\ online' = TRUE
    /\ SS_ScheduleSync
    /\ UNCHANGED <<ssData, ssIsSyncing, ssEv, ssActive, ssJoined, task>>

SS_GoOffline ==
    /\ online
    /\ online' = FALSE
    /\ UNCHANGED ssVars

\* worker message SYNC_FORMS or SYNC_MEDIA: syncForms() or syncMedia() is called
\* without looking at isSyncing
SS_WorkerMessage ==
    /\ task["aux"].pc = "idle"
    /\ \E k \in {"forms", "media"} :
          SetTask("aux", [IdleTask EXCEPT !.pc = k, !.kind = k])
    /\ UNCHANGED <<envVars, ssData, ssCtl>>

\* processUploadQueue() called by the online listener of initMediaSync, by
\* initMediaSync itself and by triggerBackgroundSync when no worker sync exists
SS_ProcessUploadQueueCall ==
    /\ online
    /\ task["aux"].pc = "idle"
    /\ SetTask("aux", [IdleTask EXCEPT !.pc = "media", !.kind = "media"])
    /\ UNCHANGED <<envVars, ssData, ssCtl>>

\* formDataService.submitForm: db.add of the pending submission
SS_SubmitForm ==
    /\ task["aux"].pc = "idle"
    /\ Len(subs) < MaxSubs
    /\ subs' = Append(subs, [status |-> "pending", syncRetries |-> 0, wait |-> FALSE])
    /\ SetTask("aux", [IdleTask EXCEPT !.pc = "added", !.kind = "submit",
                                          !.cur = Len(subs) + 1])
    /\ UNCHANGED <<envVars, mstore, upq, acked, fails, ssCtl>>

\* storeMedia: metadata, chunks and the upload-queue entry are written
SS_StoreMedia ==
    /\ Len(mstore) < MaxUploads
    /\ \E o \in 0..Len(subs), n \in 0..MaxChunks :
          /\ mstore' = Append(mstore, [status |-> "pending", owner |-> o])
          /\ upq' = Append(upq, [status |-> "pending", retryCount |-> 0,
                                 wait |-> FALSE, totalChunks |-> n])
          /\ acked' = Append(acked, {})
    /\ UNCHANGED <<envVars, subs, fails, ssCtl, task>>

\* time passes: the nextRetry of one record is reached
SS_TimePasses ==
    /\ \/ \E s \in DOMAIN subs : subs[s].wait /\ subs' = [subs EXCEPT ![s].wait = FALSE]
                                 /\ UNCHANGED upq
       \/ \E m \in DOMAIN upq : upq[m].wait /\ upq' = [upq EXCEPT ![m].wait = FALSE]
                                /\ UNCHANGED subs
    /\ UNCHANGED <<envVars, mstore, acked, fails, ssCtl, task>>

\* syncForms: getPendingSubmissions answered
T_GetPending(t) ==
    /\ task[t].pc = "forms"
    /\ SetTask(t, AfterForms([task[t] EXCEPT !.todo = PendingSubmissions]))
    /\ UNCHANGED <<envVars, ssData, ssCtl>>

\* submitToServer, first part: read the record, write status uploading, send
\* the POST
SubmitStart(t, s, rest) ==
    /\ subs' = [subs EXCEPT ![s].status = "uploading"]
    /\ SetTask(t, [task[t] EXCEPT !.pc = "post", !.cur = s, !.todo = rest,
                     !.snap = [syncRetries |-> subs[s].syncRetries,
                               wait |-> subs[s].wait]])

\* syncForms: the next submission of the list is handed to submitToServer
T_SubmitNext(t) ==
    /\ task[t].pc = "sub"
    /\ LET s == SetMin(task[t].todo) IN SubmitStart(t, s, task[t].todo \ {s})
    /\ UNCHANGED <<envVars, mstore, upq, acked, fails, ssCtl>>

\* submitForm after db.add: submitToServer when online, else return
T_SubmitNow(t) ==
    /\ task[t].pc = "added"
    /\ IF online
       THEN SubmitStart(t, task[t].cur, {})
       ELSE /\ SetTask(t, IdleTask)
            /\ UNCHANGED subs
    /\ UNCHANGED <<envVars, mstore, upq, acked, fails, ssCtl>>

\* submitToServer, second part: the response. ok: the record read at the start
\* is written back as completed. Not ok: the fresh record is written as error,
\* and the error is thrown to syncForms (which counts the retry) or to
\* submitForm (which only logs it)
T_Response(t) ==
    /\ task[t].pc = "post"
    /\ LET s == task[t].cur IN
       \E ok \in Answers :
          /\ CountFailure(ok)
          /\ IF ok
             THEN /\ subs' = [subs EXCEPT ![s] = [status |-> "completed",
                                                  syncRetries |-> task[t].snap.syncRetries,
                                                  wait |-> task[t].snap.wait]]
                  /\ SetTask(t, IF task[t].kind = "submit" THEN IdleTask
                                ELSE AfterForms(task[t]))
             ELSE /\ subs' = [subs EXCEPT ![s].status = "error"]
                  /\ SetTask(t, IF task[t].kind = "submit" THEN IdleTask
                                ELSE [task[t] EXCEPT !.pc = "retry"])
    /\ UNCHANGED <<envVars, mstore, upq, acked, ssCtl>>

\* updateSubmissionRetry
T_Retry(t) ==
    /\ task[t].pc = "retry"
    /\ LET s == task[t].cur
           r == subs[s].syncRetries + 1 IN
       subs' = [subs EXCEPT ![s] = [status |-> RetryStatus(r), syncRetries |-> r,
                                    wait |-> (RetryStatus(r) = "pending")]]
    /\ SetTask(t, AfterForms(task[t]))
    /\ UNCHANGED <<envVars, mstore, upq, acked, fails, ssCtl>>

\* processUploadQueue: the pending entries are read and uploadMedia is called
\* for each of them
T_GetUploads(t) ==
    /\ task[t].pc = "media"
    /\ SetTask(t, [task[t] EXCEPT !.pc = "ups",
                     !.ups = [m \in PendingUploads |->
                                [pc |-> "begin", i |-> 0, rc |-> 0, w |-> FALSE]]])
    /\ UNCHANGED <<envVars, ssData, ssCtl>>

SetUp(t, m, u) == task' = [task EXCEPT ![t].ups[m] = u]

\* uploadMedia: metadata and entry are read, both are written as uploading
T_UpBegin(t, m) ==
    /\ task[t].ups[m].pc = "begin"
    /\ mstore' = [mstore EXCEPT ![m].status = "uploading"]
    /\ upq' = [upq EXCEPT ![m].status = "uploading"]
    /\ SetUp(t, m, [pc |-> IF upq[m].totalChunks = 0 THEN "finish" ELSE "chunk",
                    i |-> 0, rc |-> upq[m].retryCount, w |-> upq[m].wait])
    /\ UNCHANGED <<envVars, subs, acked, fails, ssCtl>>

\* uploadMedia: chunk i is sent and answered
T_UpChunk(t, m) ==
    /\ task[t].ups[m].pc = "chunk"
    /\ LET u == task[t].ups[m] IN
       \E ok \in Answers :
          /\ CountFailure(ok)
          /\ acked' = IF ok THEN [acked EXCEPT ![m] = @ \cup {u.i}] ELSE acked
          /\ IF ChunkRefused(ok)
             THEN SetUp(t, m, [u EXCEPT !.pc = "catch"])
             ELSE SetUp(t, m, [u EXCEPT !.i = u.i + 1,
                                 !.pc = IF u.i + 1 = upq[m].totalChunks
                                        THEN "finish" ELSE "chunk"])
    /\ UNCHANGED <<envVars, subs, mstore, upq, ssCtl>>

\* uploadMedia: all chunks sent; the records read at the start are written
\* back as uploaded and completed
T_UpFinish(t, m) ==
    /\ task[t].ups[m].pc = "finish"
    /\ mstore' = [mstore EXCEPT ![m].status = "uploaded"]
    /\ upq' = [upq EXCEPT ![m] = [@ EXCEPT !.status = "completed",
                                           !.retryCount = task[t].ups[m].rc,
                                           !.wait = task[t].ups[m].w]]
    /\ SetUp(t, m, [task[t].ups[m] EXCEPT !.pc = "done"])
    /\ UNCHANGED <<envVars, subs, acked, fails, ssCtl>>

\* uploadMedia, catch: the fresh records are written as error, the retry is
\* counted and nextRetry is set
T_UpCatch(t, m) ==
    /\ task[t].ups[m].pc = "catch"
    /\ mstore' = [mstore EXCEPT ![m].status = "error"]
    /\ LET r == upq[m].retryCount + 1 IN
       upq' = [upq EXCEPT ![m] = [@ EXCEPT !.status = UploadRetryStatus(r),
                                           !.retryCount = r,
                                           !.wait = TRUE]]
    /\ SetUp(t, m, [task[t].ups[m] EXCEPT !.pc = "rej"])
    /\ UNCHANGED <<envVars, subs, acked, fails, ssCtl>>

UploadsSettled(t) ==
    /\ task[t].pc = "ups"
    /\ \A m \in DOMAIN task[t].ups : task[t].ups[m].pc \in {"done", "rej"}

\* the SYNC_MEDIA handler or a processUploadQueue call is done
T_AuxDone ==
    /\ UploadsSettled("aux")
    /\ SetTask("aux", IdleTask)
    /\ UNCHANGED <<envVars, ssData, ssCtl>>

\* syncAll after syncMedia: syncCompleted, then the finally block
SS_CycleEnd ==
    /\ UploadsSettled("cycle")
    /\ ssEv' = Append(ssEv, "syncCompleted")
    /\ SS_Finally
    /\ SetTask("cycle", IdleTask)
    /\ UNCHANGED <<envVars, ssData, ssJoined>>

\* the store rejects a read of syncForms or syncMedia: the catch of syncAll
\* notifies syncFailed, then the finally block
SS_CycleThrows ==
    /\ task["cycle"].pc \in {"forms", "media"}
    /\ ssEv' = Append(ssEv, "syncFailed:error")
    /\ SS_Finally
    /\ SetTask("cycle", IdleTask)
    /\ UNCHANGED <<envVars, ssData, ssJoined>>

T_Forms ==
    \E t \in TaskIds :
        \/ T_GetPending(t)
        \/ T_SubmitNext(t)
        \/ T_SubmitNow(t)
        \/ T_Response(t)
        \/ T_Retry(t)

T_Media ==
    \E t \in {"cycle", "aux"} :
        \/ T_GetUploads(t)
        \/ \E m \in DOMAIN task[t].ups :
               \/ T_UpBegin(t, m)
               \/ T_UpChunk(t, m)
               \/ T_UpFinish(t, m)
               \/ T_UpCatch(t, m)

\* SyncService.init(): a first sync is scheduled when the device is online
InitSS ==
    /\ online \in BOOLEAN
    /\ Constructed
    /\ smTimer = FALSE
    /\ ssPendingSync = online
    /\ ssTimer = online

NextSS ==
    \/ SS_HandleOnline /\ UNCHANGED notSS
    \/ SS_GoOffline /\ UNCHANGED notSS
    \/ SS_TimerFires /\ UNCHANGED notSS
    \/ SS_ManualSync /\ UNCHANGED notSS
    \/ SS_TriggerSync /\ UNCHANGED notSS
    \/ SS_WorkerMessage /\ UNCHANGED notSS
    \/ SS_ProcessUploadQueueCall /\ UNCHANGED notSS
    \/ SS_SubmitForm /\ UNCHANGED notSS
    \/ SS_StoreMedia /\ UNCHANGED notSS
    \/ SS_TimePasses /\ UNCHANGED notSS
    \/ T_Forms /\ UNCHANGED notSS
    \/ T_Media /\ UNCHANGED notSS
    \/ T_AuxDone /\ UNCHANGED notSS
    \/ SS_CycleEnd /\ UNCHANGED notSS
    \/ SS_CycleThrows /\ UNCHANGED notSS

SpecSS == InitSS /\ [][NextSS]_vars

\* ======================================================================
\* db/index.js : SyncQueueDAO called directly
\* ======================================================================

Priorities == {"high", "normal", "low"}

\* index('status').getAll('pending', limit) as the array it returns: the
\* pending records in the order of their keys
RECURSIVE PendingList(_, _, _)
PendingList(q, i, limit) ==
    IF i > Len(q) \/ limit = 0 THEN << >>
    ELSE IF q[i].status = "pending"
         THEN <<i>> \o PendingList(q, i + 1, limit - 1)
         ELSE PendingList(q, i + 1, limit)

\* SyncService.addToQueue(type, data, priority)
DAO_AddToQueue ==
    /\ Len(queue) < MaxItems
    /\ \E p \in Priorities :
          /\ queue' = AddToQueueWithPriority(queue, "FORM_SUBMISSION", 0, p)
          /\ dao' = [NoCall EXCEPT !.op = "addToQueue", !.id = Len(queue) + 1]
    /\ UNCHANGED <<envVars, formData, media, smIsSyncing, smTimer, smPc, smBatch,
                   smEv, smActive, smDrains, smTouched, smJoined, posts, ssVars,
                   storeVars, extVars>>

\* SyncQueueDAO.updateStatus(id, status)
DAO_UpdateStatus ==
    /\ \E id \in DOMAIN queue, st \in {"processing", "completed", "error"} :
          /\ queue[id].attempts < MaxUpdates
          /\ queue' = UpdateStatus(queue, id, st, IF st = "error" THEN "http" ELSE "none")
          /\ dao' = [NoCall EXCEPT !.op = "updateStatus", !.id = id, !.status = st,
                                   !.was = queue[id].status,
                                   !.attempts = queue[id].attempts]
    /\ UNCHANGED <<envVars, formData, media, smIsSyncing, smTimer, smPc, smBatch,
                   smEv, smActive, smDrains, smTouched, smJoined, posts, ssVars,
                   storeVars, extVars>>

\* SyncQueueDAO.getNextBatch(limit)
DAO_GetNextBatch ==
    /\ \E limit \in 1..MaxItems :
          dao' = [NoCall EXCEPT !.op = "getNextBatch", !.limit = limit,
                                !.out = PendingList(queue, 1, limit)]
    /\ UNCHANGED <<envVars, smVars, ssVars, storeVars, extVars>>

InitDAO ==
    /\ online = TRUE
    /\ Constructed
    /\ smTimer = FALSE
    /\ ssPendingSync = FALSE
    /\ ssTimer = FALSE

NextDAO ==
    \/ DAO_AddToQueue
    \/ DAO_UpdateStatus
    \/ DAO_GetNextBatch

SpecDAO == InitDAO /\ [][NextDAO]_vars

\* the event loop runs every continuation of the drain cycle whose awaited
\* store or network call has returned
FairSpec == Spec /\ WF_vars(SM_Cycle /\ UNCHANGED notSM)

\* ======================================================================
\* Properties of the queue-based engine (Spec, FairSpec)
\* ======================================================================

\* C1: under every interleaving of the triggers (online event, debounce timer,
\* manual call, worker message) at most one drain cycle of the SyncManager is
\* active, and a cycle is active exactly while isSyncing is set: a syncAll call
\* made while isSyncing is true starts no second cycle.
C1_OneCycle == smActive <= 1 /\ (smActive = 1 <=> smIsSyncing)

\* a syncAll call arrived while a cycle was running its batch
C1_Witness == smIsSyncing /\ smJoined /\ smPc = "batch" /\ smActive = 1

C4_Events ==
    IF smIsSyncing
    THEN smEv = <<"syncStarted">> /\ smPc # "idle"
    ELSE /\ smPc = "idle"
         /\ smEv \in {<< >>, <<"syncStarted", "syncCompleted">>,
                      <<"syncStarted", "syncFailed:unreachable">>,
                      <<"syncStarted", "syncFailed:error">>}

\* C4: every drain cycle that starts ends: it notifies syncStarted once, then
\* exactly one of syncCompleted and syncFailed, and isSyncing is false
\* afterwards, whether the queue was drained, the API was not reachable or an
\* exception escaped.
C4_CycleEnds == [](C4_Events) /\ (smIsSyncing ~> ~smIsSyncing)

\* a cycle completed although one of its items was rejected
C4_Witness ==
    /\ ~smIsSyncing
    /\ smEv = <<"syncStarted", "syncCompleted">>
    /\ \E i \in DOMAIN queue : queue[i].status = "error"

\* C5: a cycle whose health probe reported the API unreachable notified
\* syncFailed and stopped; it wrote no sync-queue record and sent no request.
C5_UnreachableNoEffect ==
    (\E k \in DOMAIN smEv : smEv[k] = "syncFailed:unreachable") =>
        /\ ~smTouched
        /\ ~smIsSyncing
        /\ smPc = "idle"
        /\ smEv = <<"syncStarted", "syncFailed:unreachable">>

\* the probe failed while a pending item was waiting in the queue
C5_Witness ==
    /\ smEv = <<"syncStarted", "syncFailed:unreachable">>
    /\ GetNextBatch(queue, BATCH_SIZE) # {}

\* C8: a sync-queue item whose status is completed or failed is never written
\* again and never enters a later batch.
C8_TerminalStays ==
    [][\A i \in DOMAIN queue :
          queue[i].status \in {"completed", "failed"} =>
             /\ queue'[i] = queue[i]
             /\ (i \in DOMAIN smBatch' => i \in DOMAIN smBatch)]_vars

\* a later batch is being processed while a completed item is in the queue
C8_Witness ==
    /\ smPc = "batch"
    /\ smBatch # << >>
    /\ \E i \in DOMAIN queue : queue[i].status = "completed" /\ i \notin DOMAIN smBatch

C10_FailedAfterRetries ==
    ((\A f \in DOMAIN formData : ~formData[f].submitted)
       /\ smDrains >= MAX_RETRY_ATTEMPTS) =>
          \A i \in DOMAIN queue : queue[i].lastError = "http" => queue[i].status = "failed"

\* the FORM_SUBMISSION items that were refused because a media was not uploaded
NotReady == {i \in DOMAIN queue : queue[i].type = "FORM_SUBMISSION"
                                   /\ queue[i].lastError = "media"}

\* the item was refused without a POST and its submission is not submitted
RefusedUnsent(i) ==
    /\ queue[i].status = "error"
    /\ posts[queue[i].ref] = 0
    /\ ~formData[queue[i].ref].submitted

\* a pending MEDIA_UPLOAD item waits for a media of submission f
UploadPending(f) ==
    \E j \in DOMAIN queue : /\ queue[j].type = "MEDIA_UPLOAD"
                             /\ queue[j].status = "pending"
                             /\ media[queue[j].ref].formDataId = f

C13_RefusedUnsent == \A i \in NotReady : RefusedUnsent(i)

\* the MEDIA_UPLOAD item is pending when the refused item is written as error
C13_PendingAtRefusal ==
    \A i \in NotReady : smPc = "batch" /\ i \in DOMAIN smBatch => UploadPending(queue[i].ref)

\* the media for which a MEDIA_UPLOAD item is in the queue
Enqueued == {queue[j].ref : j \in {k \in DOMAIN queue : queue[k].type = "MEDIA_UPLOAD"}}

\* C14: when a FORM_SUBMISSION item has been refused for media that are not
\* uploaded, a MEDIA_UPLOAD item has been enqueued for each of those media.
C14_EachMediaEnqueued ==
    \A i \in NotReady : MediaNotUploaded(queue[i].ref) \subseteq Enqueued

\* C15: no sync-queue record stays in processing with no task working on it:
\* a record in processing belongs to the batch of the running cycle (a record
\* outside it is selected by no later cycle, getNextBatch reading pending only).
C15_NoStuckProcessing ==
    \A i \in DOMAIN queue :
       queue[i].status = "processing" =>
          \/ smPc = "batch" /\ i \in DOMAIN smBatch
          \/ i \in GetNextBatch(queue, BATCH_SIZE)

\* ======================================================================
\* Properties of the status-based engine (SpecSS)
\* ======================================================================

\* C2: a sync requested while a drain cycle runs is not dropped: when the cycle
\* has ended and no new one has started, a follow-up cycle is scheduled.
C2_RequestNotDropped == (~ssIsSyncing /\ ssJoined) => ssTimer

\* the tasks that have sent the POST of submission s and wait for the answer
Senders(s) == {t \in TaskIds : task[t].pc = "post" /\ task[t].cur = s}

\* the tasks that are uploading media m
Uploaders(m) == {t \in TaskIds : /\ m \in DOMAIN task[t].ups
                                 /\ task[t].ups[m].pc \in {"chunk", "finish", "catch"}}

\* C3: no submission and no media is being sent by two tasks at once.
C3_NoDoubleSend ==
    /\ \A s \in DOMAIN subs : Cardinality(Senders(s)) <= 1
    /\ \A m \in DOMAIN mstore : Cardinality(Uploaders(m)) <= 1

\* C6: a completed submission has all of its media uploaded.
C6_CompletedHasMedia ==
    \A s \in DOMAIN subs :
       subs[s].status = "completed" =>
          \A m \in DOMAIN mstore : mstore[m].owner = s => mstore[m].status = "uploaded"

AllChunks(m) == 0 .. (upq[m].totalChunks - 1)

ChunkSenders(m) == {t \in TaskIds : /\ m \in DOMAIN task[t].ups
                                    /\ task[t].ups[m].pc = "chunk"}

\* C16: an upload that is a retry (the queue entry it read had failed before)
\* and is the only upload of its media sends no chunk the server has
\* acknowledged already.
C16_NoResend ==
    \A m \in DOMAIN mstore : \A t \in ChunkSenders(m) :
       (task[t].ups[m].rc >= 1 /\ Uploaders(m) = {t}) => task[t].ups[m].i \notin acked[m]

\* C17: two chunk requests for one media are never under way at the same time.
C17_OneChunkInFlight == \A m \in DOMAIN mstore : Cardinality(ChunkSenders(m)) <= 1

\* C18: the retry counter of a queue entry is raised only after a chunk has
\* failed on each of its immediate attempts: every unit of retryCount stands
\* for at least CHUNK_SEND_RETRIES failed requests.
C18_RetryAfterLowLevel ==
    \A m \in DOMAIN upq : CHUNK_SEND_RETRIES * upq[m].retryCount <= fails

SS_OneCycle == ssActive <= 1 /\ (ssActive = 1 <=> ssIsSyncing)

\* ======================================================================
\* Properties of SyncQueueDAO (SpecDAO)
\* ======================================================================

\* C11: marking a completed item completed once more leaves its status
\* completed and its attempts as they were after the first marking.
C11_MarkCompletedIdempotent ==
    (dao.op = "updateStatus" /\ dao.status = "completed" /\ dao.was = "completed") =>
        /\ queue[dao.id].status = "completed"
        /\ queue[dao.id].attempts = dao.attempts

Rank(p) == CASE p = "high" -> 0 [] p = "low" -> 2 [] OTHER -> 1

\* i comes before j in the order by priority, then creation
Before(q, i, j) == Rank(q[i].priority) < Rank(q[j].priority)
                   \/ (Rank(q[i].priority) = Rank(q[j].priority) /\ i < j)

\* the first limit members of S in that order
RECURSIVE FirstByPriority(_, _, _)
FirstByPriority(q, S, limit) ==
    IF S = {} \/ limit = 0 THEN << >>
    ELSE LET i == CHOOSE x \in S : \A y \in S \ {x} : Before(q, x, y)
         IN <<i>> \o FirstByPriority(q, S \ {i}, limit - 1)

\* C12: getNextBatch(limit) returns the first limit pending items in the order
\* by priority, then creation time.
C12_BatchByPriority ==
    dao.op = "getNextBatch" =>
        dao.out = FirstByPriority(queue, {i \in DOMAIN queue : queue[i].status = "pending"},
                                  dao.limit)

\* ---------------------------------------------------------------------------
\* storeMedia and getMediaFile (SpecStore): one media followed record by record
\* ---------------------------------------------------------------------------

\* the blob types given to storeMedia
FileTypes == {"image/png", "image/jpeg", "image/gif", "video/mp4", "application/pdf"}

\* the sizes given to storeMedia: empty, one byte, one chunk, one chunk and a
\* byte, ten chunks, ten chunks and a half
FileSizes == {0, 1, ChunkBytes, ChunkBytes + 1, 10 * ChunkBytes,
              (21 * ChunkBytes) \div 2}

\* the content of a file as it was captured: byte p holds its own position
Captured(n) == [p \in 1..n |-> p % 256]

\* the content written by the JPEG encoder of the canvas
Encoded(n) == [p \in 1..n |-> 255 - (p % 256)]

\* storeMedia: file.type.startsWith('image/') && file.type !== 'image/gif'
Compressible(type) == type \in {"image/png", "image/jpeg"}

\* Math.ceil(size / CHUNK_SIZE)
TotalChunks(size) == (size + ChunkBytes - 1) \div ChunkBytes

\* processedFile.slice(i * CHUNK_SIZE, Math.min(i * CHUNK_SIZE + CHUNK_SIZE, size))
Slice(bytes, i) ==
    SubSeq(bytes, i * ChunkBytes + 1, Min(i * ChunkBytes + ChunkBytes, Len(bytes)))

\* the decimal digits of i in the key `${mediaId}_${i}` of a chunk record
KeyDigits(i) == IF i < 10 THEN <<i>> ELSE <<i \div 10, i % 10>>

\* the order of two keys of the chunks store, which are strings
RECURSIVE KeyBefore(_, _)
KeyBefore(a, b) ==
    IF a = << >> THEN b # << >>
    ELSE IF b = << >> THEN FALSE
    ELSE IF Head(a) # Head(b) THEN Head(a) < Head(b)
    ELSE KeyBefore(Tail(a), Tail(b))

\* db.getAllFromIndex(CHUNKS_STORE, 'mediaId', mediaId): the records of the
\* media in the order of their primary keys
RECURSIVE ChunksOfMedia(_)
ChunksOfMedia(S) ==
    IF S = {} THEN << >>
    ELSE LET first == CHOOSE i \in S :
                         \A j \in S \ {i} : KeyBefore(KeyDigits(i), KeyDigits(j))
         IN <<first>> \o ChunksOfMedia(S \ {first})

\* new File(chunks.map(chunk => chunk.data), ...)
RECURSIVE Joined(_, _)
Joined(recs, order) ==
    IF order = << >> THEN << >>
    ELSE recs[Head(order)].data \o Joined(recs, Tail(order))

\* storeMedia(file, formDataId, fieldName), up to the choice of compression
ST_StoreMedia ==
    /\ stPc = "idle"
    /\ \E type \in FileTypes, size \in FileSizes :
          LET file == [type |-> type, bytes |-> Captured(size)] IN
          /\ stFile' = file
          /\ IF Compressible(type)
             THEN /\ stPc' = "compress"
                  /\ UNCHANGED processedFile
             ELSE /\ stPc' = "meta"
                  /\ processedFile' = file
    /\ UNCHANGED <<mediaRec, chunkRecs, queueRec, stI, gotFile>>

\* compressImage resolves: the image was drawn on a canvas and encoded
ST_Compressed ==
    /\ stPc = "compress"
    /\ \E n \in 1..MaxJpegBytes :
          processedFile' = [type |-> "image/jpeg", bytes |-> Encoded(n)]
    /\ stPc' = "meta"
    /\ UNCHANGED <<stFile, mediaRec, chunkRecs, queueRec, stI, gotFile>>

\* compressImage rejects (img.onerror): storeMedia throws
ST_CompressFails ==
    /\ stPc = "compress"
    /\ stPc' = "thrown"
    /\ UNCHANGED <<stFile, processedFile, mediaRec, chunkRecs, queueRec, stI, gotFile>>

\* db.add(MEDIA_STORE, ...)
ST_AddMedia ==
    /\ stPc = "meta"
    /\ mediaRec' = [type |-> processedFile.type, size |-> Len(processedFile.bytes),
                    status |-> "pending"]
    /\ stI' = 0
    /\ stPc' = IF TotalChunks(Len(processedFile.bytes)) = 0 THEN "queue" ELSE "chunks"
    /\ UNCHANGED <<stFile, processedFile, chunkRecs, queueRec, gotFile>>

\* one turn of the loop: db.add(CHUNKS_STORE, ...)
ST_AddChunk ==
    /\ stPc = "chunks"
    /\ LET chunk == Slice(processedFile.bytes, stI) IN
       chunkRecs' = [i \in DOMAIN chunkRecs \cup {stI} |->
                        IF i = stI THEN [data |-> chunk, size |-> Len(chunk)]
                        ELSE chunkRecs[i]]
    /\ stI' = stI + 1
    /\ stPc' = IF stI + 1 < TotalChunks(Len(processedFile.bytes)) THEN "chunks" ELSE "queue"
    /\ UNCHANGED <<stFile, processedFile, mediaRec, queueRec, gotFile>>

\* db.add(UPLOAD_QUEUE_STORE, ...) and the return of storeMedia
ST_AddQueue ==
    /\ stPc = "queue"
    /\ queueRec' = [status |-> "pending", retryCount |-> 0,
                    totalChunks |-> TotalChunks(Len(processedFile.bytes))]
    /\ stPc' = "stored"
    /\ UNCHANGED <<stFile, processedFile, mediaRec, chunkRecs, stI, gotFile>>

\* a db.add of storeMedia rejects (the quota of the origin is exceeded):
\* the catch logs and throws again, the records added before stay
ST_AddFails ==
    /\ stPc \in {"meta", "chunks", "queue"}
    /\ stPc' = "thrown"
    /\ UNCHANGED <<stFile, processedFile, mediaRec, chunkRecs, queueRec, stI, gotFile>>

\* getMediaFile(mediaId) with the id that storeMedia returned
ST_GetMediaFile ==
    /\ stPc = "stored"
    /\ LET chunks == SortSeq(ChunksOfMedia(DOMAIN chunkRecs),
                             LAMBDA a, b : a < b) IN
       gotFile' = [type |-> mediaRec.type, bytes |-> Joined(chunkRecs, chunks)]
    /\ stPc' = "read"
    /\ UNCHANGED <<stFile, processedFile, mediaRec, chunkRecs, queueRec, stI>>

InitStore ==
    /\ online = TRUE
    /\ Constructed
    /\ smTimer = FALSE
    /\ ssPendingSync = FALSE
    /\ ssTimer = FALSE

NextStore ==
    \/ ST_StoreMedia /\ UNCHANGED <<envVars, smVars, ssVars, daoVars, extVars>>
    \/ ST_Compressed /\ UNCHANGED <<envVars, smVars, ssVars, daoVars, extVars>>
    \/ ST_CompressFails /\ UNCHANGED <<envVars, smVars, ssVars, daoVars, extVars>>
    \/ ST_AddMedia /\ UNCHANGED <<envVars, smVars, ssVars, daoVars, extVars>>
    \/ ST_AddChunk /\ UNCHANGED <<envVars, smVars, ssVars, daoVars, extVars>>
    \/ ST_AddQueue /\ UNCHANGED <<envVars, smVars, ssVars, daoVars, extVars>>
    \/ ST_AddFails /\ UNCHANGED <<envVars, smVars, ssVars, daoVars, extVars>>
    \/ ST_GetMediaFile /\ UNCHANGED <<envVars, smVars, ssVars, daoVars, extVars>>

SpecStore == InitStore /\ [][NextStore]_vars

\* C19: the file that getMediaFile returns after storeMedia has the type and
\* the bytes of the file that was given to storeMedia.
C19_RoundTrip ==
    stPc = "read" => (gotFile.type = stFile.type /\ gotFile.bytes = stFile.bytes)

\* the file returned is the file that was stored, compressed or not
C19_ReturnsStored == stPc = "read" => gotFile = processedFile

\* the chunk records of the media are those of a complete media of its size
ChunksComplete ==
    LET n == TotalChunks(mediaRec.size) IN
    /\ DOMAIN chunkRecs = 0..(n - 1)
    /\ \A i \in DOMAIN chunkRecs : i < n - 1 => chunkRecs[i].size = ChunkBytes
    /\ n > 0 => chunkRecs[n - 1].size = mediaRec.size - (n - 1) * ChunkBytes

\* C20: in every state the media record, once written, has exactly the chunks
\* 0 .. ceil(size / chunk size) - 1, all of the chunk size but the last, and
\* their sizes add up to the size of the media.
C20_ChunksMatchSize == mediaRec # NoRecord => ChunksComplete

\* the same once storeMedia has returned
C20_CompleteWhenStored == stPc \in {"stored", "read"} => ChunksComplete

\* a media of ten chunks and a half is stored as eleven chunks, an empty one
\* as none
C20_ScenarioC ==
    stPc \in {"stored", "read"} =>
       /\ mediaRec.size = (21 * ChunkBytes) \div 2 => queueRec.totalChunks = 11
       /\ mediaRec.size = 0 => (queueRec.totalChunks = 0 /\ chunkRecs = << >>)

\* compressImage has rejected: storeMedia has no file to store
CompressionFailed == Compressible(stFile.type) /\ processedFile = NoFile /\ stPc = "thrown"

\* C21: a compression that fails does not make storeMedia fail: storeMedia
\* never ends with an error while the image has not been compressed.
C21_CompressionFallback == ~CompressionFailed

\* the same for what is stored: after a failed compression a media record exists
C21_StoredAnyway == CompressionFailed => (mediaRec # NoRecord /\ queueRec # NoRecord)

\* ---------------------------------------------------------------------------
\* The service worker (SpecSW): lifecycle, fetch strategies, offline queue
\* ---------------------------------------------------------------------------

\* a cache name `fse-${kind}-${version}`
CacheName(kind, version) == [prefix |-> "fse", kind |-> kind, version |-> version]

STATIC_CACHE  == CacheName("static", "v2")
DYNAMIC_CACHE == CacheName("dynamic", "v2")
FORM_CACHE    == CacheName("forms", "v2")
API_CACHE     == CacheName("api", "v2")
IMAGE_CACHE   == CacheName("images", "v2")

CurrentCaches == {STATIC_CACHE, DYNAMIC_CACHE, FORM_CACHE, API_CACHE, IMAGE_CACHE}

\* the caches a worker version deployed before this one has left: those of the
\* single-cache worker, or those of this worker under its previous version tag
OldCacheSets == {{CacheName("lead-collection", "v1")},
                 {CacheName("static", "v1"), CacheName("dynamic", "v1")}}

\* the order in which caches.match looks through the caches: creation order
CacheOrder == <<CacheName("lead-collection", "v1"), CacheName("static", "v1"),
                CacheName("dynamic", "v1"), STATIC_CACHE, DYNAMIC_CACHE, FORM_CACHE,
                API_CACHE, IMAGE_CACHE>>

\* the entries of STATIC_ASSETS among the paths that are requested
StaticAssets == {"/", "/offline.html", "/assets/index.js",
                 "/assets/icons/icon-72x72.png"}

Paths == {"/api/forms/7", "/api/submissions", "/api/media/upload",
          "/api/reports/9.png", "/assets/index.js", "/assets/icons/icon-72x72.png",
          "/", "/offline.html", "/leads/export", "/chrome-extension/popup"}
Methods == {"GET", "POST", "PUT", "DELETE", "PATCH"}
Destinations == {"", "image", "script", "document"}
ContentTypes == {"application/json", "multipart/form-data"}

Mutating(method) == method \in {"POST", "PUT", "DELETE"}

\* the requests that reach the fetch handler: images and scripts are loaded
\* with GET, a navigation is a GET or the POST of a form, and the requests
\* that mutate carry a body
Requests ==
    {r \in [path : Paths, method : Methods, dest : Destinations,
            ctype : ContentTypes \cup {"none"}, sameOrigin : BOOLEAN] :
        /\ (r.ctype # "none") <=> Mutating(r.method)
        /\ r.dest \in {"image", "script"} => r.method = "GET"
        /\ r.dest = "document" => r.method \in {"GET", "POST"}}

\* url.pathname.startsWith(...) and url.pathname.endsWith(...)
UnderApiForms(path) == path \in {"/api/forms/7"}
UnderApi(path) == path \in {"/api/forms/7", "/api/submissions", "/api/media/upload",
                            "/api/reports/9.png"}
UnderApiSubmissions(path) == path \in {"/api/submissions"}
UnderApiMedia(path) == path \in {"/api/media/upload"}
UnderChromeExtension(path) == path \in {"/chrome-extension/popup"}
ImagePath(path) == path \in {"/api/reports/9.png", "/assets/icons/icon-72x72.png"}
StaticPath(path) == path \in {"/assets/index.js"}

\* variant: the mutation handler is chosen for the paths of the API only
ApplyStrategyApiOnly(r) ==
    IF UnderApi(r.path) /\ r.method = "GET"
       THEN [handler |-> "networkFirst",
             cache |-> IF UnderApiForms(r.path) THEN FORM_CACHE ELSE API_CACHE]
    ELSE IF UnderApi(r.path) /\ Mutating(r.method)
       THEN [handler |-> "handleMutation", cache |-> NoCache]
    ELSE [handler |-> "staleWhileRevalidate", cache |-> DYNAMIC_CACHE]

\* applyStrategy: the handler and the cache chosen for a request
ApplyStrategy(r) ==
    IF UnderApiForms(r.path) /\ r.method = "GET"
       THEN [handler |-> "networkFirst", cache |-> FORM_CACHE]
    ELSE IF UnderApi(r.path) /\ r.method = "GET"
       THEN [handler |-> "networkFirst", cache |-> API_CACHE]
    ELSE IF r.method = "POST" \/ r.method = "PUT" \/ r.method = "DELETE"
       THEN [handler |-> "handleMutation", cache |-> NoCache]
    ELSE IF r.dest = "image" \/ ImagePath(r.path)
       THEN [handler |-> "cacheFirst", cache |-> IMAGE_CACHE]
    ELSE IF r.dest \in {"style", "script"} \/ StaticPath(r.path)
       THEN [handler |-> "cacheFirst", cache |-> STATIC_CACHE]
    ELSE IF r.dest = "document"
       THEN [handler |-> "networkFirst", cache |-> DYNAMIC_CACHE]
    ELSE [handler |-> "staleWhileRevalidate", cache |-> DYNAMIC_CACHE]

\* f with key k set to v
Ext(f, k, v) == [x \in DOMAIN f \cup {k} |-> IF x = k THEN v ELSE f[x]]

\* caches.open(name): the cache is created when it does not exist
Open(cs, c) == IF c \in DOMAIN cs THEN cs ELSE Ext(cs, c, << >>)

\* cache.put(request, response) on the cache opened under name c
PutIn(cs, c, path, status) == Ext(cs, c, Ext(Open(cs, c)[c], path, status))

\* caches.match(request): the status of the first response held for the
\* request, 0 when there is none; a request that is not a GET matches nothing
Match(cs, path, method) ==
    LET holders == {i \in 1..Len(CacheOrder) :
                       /\ CacheOrder[i] \in DOMAIN cs
                       /\ path \in DOMAIN cs[CacheOrder[i]]} IN
    IF method # "GET" \/ holders = {} THEN 0
    ELSE cs[CacheOrder[CHOOSE i \in holders : \A j \in holders : i <= j]][path]

\* the outcomes of fetch(request): a response that is ok, a response with an
\* error status, or a rejection; offline only the rejection
NetOutcomes(on) == IF on THEN {"ok", "error", "reject"} ELSE {"reject"}
StatusOf(net) == IF net = "ok" THEN 200 ELSE 500

\* cache.put resolves: the request is a GET and the storage takes the entry
CanPut(r, putOk) == r.method = "GET" /\ putOk

Outcome(kind, status, cs, wrote) ==
    [kind |-> kind, status |-> status, caches |-> cs, wrote |-> wrote,
     stored |-> FALSE, tag |-> "none", body |-> "none"]

\* networkFirst(request, cacheName)
NetworkFirst(cs, r, c, net, putOk) ==
    IF net # "reject" /\ CanPut(r, putOk)
    THEN Outcome("network", StatusOf(net), PutIn(cs, c, r.path, StatusOf(net)), TRUE)
    ELSE LET cs1 == IF net = "reject" THEN cs ELSE Open(cs, c)
             cached == Match(cs1, r.path, r.method) IN
         IF cached # 0 THEN Outcome("cached", cached, cs1, FALSE)
         ELSE Outcome("error", 0, cs1, FALSE)

\* cacheFirst(request, cacheName)
CacheFirst(cs, r, c, net, putOk) ==
    LET cached == Match(cs, r.path, r.method) IN
    IF cached # 0 THEN Outcome("cached", cached, cs, FALSE)
    ELSE IF net = "reject" THEN Outcome("error", 0, cs, FALSE)
    ELSE IF CanPut(r, putOk)
    THEN Outcome("network", StatusOf(net), PutIn(cs, c, r.path, StatusOf(net)), TRUE)
    ELSE Outcome("error", 0, Open(cs, c), FALSE)

\* staleWhileRevalidate(request, cacheName)
StaleWhileRevalidate(cs, r, c, net, putOk) ==
    LET cached == Match(cs, r.path, r.method)
        update == net = "ok" /\ CanPut(r, putOk)
        cs1 == IF update THEN PutIn(cs, c, r.path, 200)
               ELSE IF net = "ok" THEN Open(cs, c) ELSE cs IN
    IF cached # 0 THEN Outcome("cached", cached, cs1, update)
    ELSE IF net = "reject" THEN Outcome("error", 0, cs1, FALSE)
    ELSE Outcome("network", StatusOf(net), cs1, update)

\* queueRequest: the tag of the sync that will send the request again
SyncTagOf(path) ==
    IF UnderApiSubmissions(path) THEN "sync-forms"
    ELSE IF UnderApiMedia(path) THEN "sync-media"
    ELSE "sync-general"

\* readRequestBody: what is kept of the body
ReadRequestBody(r) ==
    IF r.ctype = "multipart/form-data" THEN "FORM_DATA_WITH_FILES" ELSE "payload"

\* handleMutation(request); storeOk: readRequestBody and saveQueuedRequest
\* resolve (queueRequest catches and logs whatever they throw)
HandleMutation(cs, r, net, on, storeOk) ==
    IF net # "reject" THEN Outcome("network", StatusOf(net), cs, FALSE)
    ELSE IF ~on
    THEN [Outcome("accepted", 200, cs, FALSE) EXCEPT
             !.stored = storeOk, !.tag = SyncTagOf(r.path), !.body = ReadRequestBody(r)]
    ELSE Outcome("error", 0, cs, FALSE)

Strategy(cs, r, net, on, putOk, storeOk) ==
    LET s == ApplyStrategy(r) IN
    IF s.handler = "networkFirst" THEN NetworkFirst(cs, r, s.cache, net, putOk)
    ELSE IF s.handler = "cacheFirst" THEN CacheFirst(cs, r, s.cache, net, putOk)
    ELSE IF s.handler = "handleMutation" THEN HandleMutation(cs, r, net, on, storeOk)
    ELSE StaleWhileRevalidate(cs, r, s.cache, net, putOk)

\* the catch of the fetch handler: what the page gets when the strategy rejects
Rescue(r, o) ==
    IF o.kind # "error" THEN o
    ELSE IF r.dest = "document"
    THEN LET page == Match(o.caches, "/offline.html", "GET") IN
         IF page # 0 THEN [o EXCEPT !.kind = "offlinePage", !.status = page]
         ELSE [o EXCEPT !.kind = "failed"]
    ELSE IF UnderApi(r.path) THEN [o EXCEPT !.kind = "unavailable", !.status = 503]
    ELSE o

\* a record of the requests store as saveQueuedRequest adds it; syncs and sent
\* observe the sync events of its tag and the sending of the request
QueuedRequest(r, tag, body) ==
    [tag |-> tag, url |-> r.path, method |-> r.method, ctype |-> r.ctype,
     body |-> body, status |-> "pending", retries |-> 0, syncs |-> 0, sent |-> 0]

\* the worker of a version deployed before is the one that ran until now
SW_PreviousVersion ==
    /\ swPhase = "parsed"
    /\ swCaches = << >>
    /\ \E old \in OldCacheSets :
          swCaches' = [c \in old |-> [p \in {"/"} |-> 200]]
    /\ UNCHANGED <<online, swPhase, requests, swNextId, syncTags, syncAttempts,
                   backoff, reply, posted, swFetches>>

\* the install event; preOk: cache.addAll(STATIC_ASSETS) resolves
SW_Install ==
    /\ swPhase = "parsed"
    /\ \E preOk \in BOOLEAN :
          swCaches' =
             IF preOk
             THEN LET cs1 == Ext(swCaches, STATIC_CACHE, [p \in StaticAssets |-> 200]) IN
                  Open(Open(Open(Open(cs1, DYNAMIC_CACHE), FORM_CACHE), API_CACHE),
                       IMAGE_CACHE)
             ELSE Open(swCaches, STATIC_CACHE)
    /\ swPhase' = "installed"
    /\ UNCHANGED <<online, requests, swNextId, syncTags, syncAttempts, backoff,
                   reply, posted, swFetches>>

\* variant: activation removes no cache
RemovedNone(key) == FALSE

\* the activate handler removes a cache
Removed(key) == key \notin CurrentCaches /\ key.prefix = "fse"

\* the activate events: old caches are deleted, the clients are told
SW_Activate ==
    /\ swPhase = "installed"
    /\ swCaches' = [c \in {k \in DOMAIN swCaches : ~Removed(k)} |-> swCaches[c]]
    /\ posted' = posted \cup {[type |-> "SW_INSTALLED", tag |-> "none"]}
    /\ swPhase' = "active"
    /\ UNCHANGED <<online, requests, swNextId, syncTags, syncAttempts, backoff,
                   reply, swFetches>>

\* the fetch event for request r, one of at most limit
SW_Fetch(r, limit) ==
    /\ swPhase = "active"
    /\ swFetches < limit
    /\ swFetches' = swFetches + 1
    /\ IF ~r.sameOrigin \/ UnderChromeExtension(r.path)
       THEN /\ reply' = [NoReply EXCEPT !.req = r, !.kind = "default", !.online = online]
            /\ UNCHANGED <<swCaches, requests, swNextId, syncTags>>
       ELSE \E net \in NetOutcomes(online),
               putOk \in IF Mutating(r.method) THEN {TRUE} ELSE BOOLEAN,
               storeOk \in IF Mutating(r.method) THEN BOOLEAN ELSE {TRUE} :
               LET s == ApplyStrategy(r)
                   o == Rescue(r, Strategy(swCaches, r, net, online, putOk, storeOk)) IN
               /\ swCaches' = o.caches
               /\ requests' = IF o.stored
                              THEN Ext(requests, swNextId, QueuedRequest(r, o.tag, o.body))
                              ELSE requests
               /\ swNextId' = IF o.stored THEN swNextId + 1 ELSE swNextId
               /\ syncTags' = IF o.stored THEN syncTags \cup {o.tag} ELSE syncTags
               /\ reply' = [req |-> r, handler |-> s.handler, cache |-> s.cache,
                            net |-> net, online |-> online, kind |-> o.kind,
                            status |-> o.status, wrote |-> o.wrote,
                            before |-> IF s.cache \in DOMAIN swCaches
                                               /\ r.path \in DOMAIN swCaches[s.cache]
                                       THEN swCaches[s.cache][r.path] ELSE 0,
                            copy |-> Match(swCaches, r.path, r.method),
                            queued |-> IF o.stored THEN swNextId ELSE 0]
    /\ UNCHANGED <<online, swPhase, syncAttempts, backoff, posted>>

\* the device goes offline; the page posts NETWORK_STATUS with isOnline false
SW_GoOffline ==
    /\ online
    /\ online' = FALSE
    /\ UNCHANGED swVars

\* the device comes back; the page posts NETWORK_STATUS with isOnline true and
\* the message handler registers a sync for every tag of SYNC_CONFIG
SW_GoOnline ==
    /\ ~online
    /\ online' = TRUE
    /\ syncTags' = IF swPhase = "active" THEN syncTags \cup {"sync-forms", "sync-media"}
                   ELSE syncTags
    /\ UNCHANGED <<swPhase, swCaches, requests, swNextId, syncAttempts, backoff,
                   reply, posted, swFetches>>

SyncTags == {"sync-forms", "sync-media", "sync-general"}

\* SYNC_CONFIG[tag].maxRetries, or that of the default configuration
MaxRetriesOf(tag) ==
    IF tag = "sync-forms" THEN SYNC_FORMS_MAX_RETRIES
    ELSE IF tag = "sync-media" THEN SYNC_MEDIA_MAX_RETRIES
    ELSE SYNC_DEFAULT_MAX_RETRIES

\* the upgrade callback of fse-offline-requests creates the store 'requests'
\* and no index on it
HasTagIndex == FALSE

\* the requests of a tag that are in the store
Queued(tag) == {id \in DOMAIN requests : requests[id].tag = tag}

\* the keys of f other than those of D
Without(f, D) == [x \in DOMAIN f \ D |-> f[x]]

\* the sync event for tag: processSyncEvent(tag)
SW_Sync(tag) ==
    /\ swPhase = "active"
    /\ online
    /\ tag \in syncTags
    /\ syncTags' = syncTags \ {tag}
    /\ LET count == (IF tag \in DOMAIN syncAttempts THEN syncAttempts[tag] ELSE 0) + 1
           seen == [id \in DOMAIN requests |->
                      IF id \in Queued(tag)
                      THEN [requests[id] EXCEPT !.syncs = Min(@ + 1, 1)]
                      ELSE requests[id]] IN
       IF count > MaxRetriesOf(tag)
       THEN /\ posted' = posted \cup {[type |-> "SYNC_FAILED", tag |-> tag]}
            /\ syncAttempts' = Without(syncAttempts, {tag})
            /\ requests' = seen
            /\ UNCHANGED backoff
       ELSE IF ~HasTagIndex
       THEN \* getAllFromIndex rejects: the catch schedules a retry
            /\ syncAttempts' = Ext(syncAttempts, tag, count)
            /\ backoff' = backoff \cup {tag}
            /\ posted' = posted \cup {[type |-> "SYNC_FAILED", tag |-> tag]}
            /\ requests' = seen
       ELSE IF Queued(tag) = {}
       THEN /\ syncAttempts' = Ext(syncAttempts, tag, count)
            /\ UNCHANGED <<requests, backoff, posted>>
       ELSE \E oks \in SUBSET Queued(tag) :
               LET tried == {id \in Queued(tag) : requests[id].retries < MaxRetriesOf(tag)}
                   done == tried \cap oks IN
               /\ requests' =
                     [id \in DOMAIN requests \ done |->
                         IF id \in tried
                         THEN [seen[id] EXCEPT !.status = "error", !.retries = @ + 1,
                                               !.sent = 1]
                         ELSE seen[id]]
               /\ posted' = posted \cup {[type |-> "SYNC_COMPLETED", tag |-> tag]}
               /\ syncAttempts' = IF done = Queued(tag)
                                  THEN Without(syncAttempts, {tag})
                                  ELSE Ext(syncAttempts, tag, count)
               /\ UNCHANGED backoff
    /\ UNCHANGED <<online, swPhase, swCaches, swNextId, reply, swFetches>>

\* the retry timeout of processSyncEvent: registerForSync(tag)
SW_BackoffElapsed(tag) ==
    /\ tag \in backoff
    /\ backoff' = backoff \ {tag}
    /\ syncTags' = syncTags \cup {tag}
    /\ UNCHANGED <<online, swPhase, swCaches, requests, swNextId, syncAttempts,
                   reply, posted, swFetches>>

notSW == <<logVars, formVars, smVars, ssVars, daoVars, storeVars, uiVars, authVars, reqVars>>

InitSW ==
    /\ online = TRUE
    /\ Constructed
    /\ smTimer = FALSE
    /\ ssPendingSync = FALSE
    /\ ssTimer = FALSE

NextSW ==
    \/ SW_PreviousVersion /\ UNCHANGED notSW
    \/ SW_Install /\ UNCHANGED notSW
    \/ SW_Activate /\ UNCHANGED notSW
    \/ (\E r \in Requests : SW_Fetch(r, MaxFetches)) /\ UNCHANGED notSW
    \/ SW_GoOffline /\ UNCHANGED notSW
    \/ SW_GoOnline /\ UNCHANGED notSW

SpecSW == InitSW /\ [][NextSW]_vars

\* the reads of the page: same-origin GET requests for the data of the API,
\* for the document and for an export
Reads == {r \in Requests : /\ r.sameOrigin /\ r.method = "GET"
                           /\ r.dest \in {"", "document"}
                           /\ r.path \in {"/api/forms/7", "/", "/leads/export"}}

\* the service worker when the page only reads (SpecCache)
NextCache ==
    \/ SW_PreviousVersion /\ UNCHANGED notSW
    \/ SW_Install /\ UNCHANGED notSW
    \/ SW_Activate /\ UNCHANGED notSW
    \/ (\E r \in Reads : SW_Fetch(r, MaxReads)) /\ UNCHANGED notSW
    \/ SW_GoOffline /\ UNCHANGED notSW
    \/ SW_GoOnline /\ UNCHANGED notSW

SpecCache == InitSW /\ [][NextCache]_vars

\* the mutations of the page: the POST of a submission and that of a media
Writes == {r \in Requests : /\ r.sameOrigin /\ r.method = "POST" /\ r.dest = ""
                            /\ r.path \in {"/api/submissions", "/api/media/upload"}}

\* the service worker when the page only sends mutations, with the sync
\* events that the browser fires (SpecSync)
NextSync ==
    \/ SW_PreviousVersion /\ UNCHANGED notSW
    \/ SW_Install /\ UNCHANGED notSW
    \/ SW_Activate /\ UNCHANGED notSW
    \/ (\E r \in Writes : SW_Fetch(r, MaxWrites)) /\ UNCHANGED notSW
    \/ SW_GoOffline /\ UNCHANGED notSW
    \/ SW_GoOnline /\ UNCHANGED notSW
    \/ (\E tag \in SyncTags : SW_Sync(tag)) /\ UNCHANGED notSW
    \/ (\E tag \in SyncTags : SW_BackoffElapsed(tag)) /\ UNCHANGED notSW

SpecSync == InitSW /\ [][NextSync]_vars

\* ---------------------------------------------------------------------------
\* Properties of the service worker
\* ---------------------------------------------------------------------------

\* the last fetch event was a mutation whose network attempt failed
MutationFailed == reply.handler = "handleMutation" /\ reply.net = "reject"

\* the record that the last fetch event queued holds the request
HoldsRequest ==
    /\ reply.queued \in DOMAIN requests
    /\ requests[reply.queued].url = reply.req.path
    /\ requests[reply.queued].method = reply.req.method
    /\ requests[reply.queued].ctype = reply.req.ctype
    /\ requests[reply.queued].body = "payload"
    /\ requests[reply.queued].tag = SyncTagOf(reply.req.path)

\* C22: a mutation that fails offline is answered with the offline acceptance
\* and has added one record holding the request, and the acceptance is never
\* given without that record.
C22_OfflineQueued ==
    /\ (MutationFailed /\ ~reply.online) => reply.kind = "accepted"
    /\ reply.kind = "accepted" => HoldsRequest

\* the acceptance is given only when a record was stored
C22_AcceptedOnlyIfStored == reply.kind = "accepted" => reply.queued \in DOMAIN requests

\* C23: a mutation that fails online gives the page the error itself: no
\* response made up by the worker, and nothing queued.
C23_ErrorPropagates ==
    (MutationFailed /\ reply.online) => (reply.kind = "error" /\ reply.queued = 0)

\* nothing is queued for a mutation that fails online
C23_NothingQueued == (MutationFailed /\ reply.online) => reply.queued = 0

\* C24: a queued request for whose tag a sync event has been handled has been
\* sent again.
C24_SyncResends ==
    \A id \in DOMAIN requests : requests[id].syncs >= 1 => requests[id].sent >= 1

\* the strategy of a request as the specification lists it
Listed(r) ==
    IF Mutating(r.method) THEN [handler |-> "handleMutation", cache |-> NoCache]
    ELSE IF r.method = "GET" /\ UnderApiForms(r.path)
       THEN [handler |-> "networkFirst", cache |-> FORM_CACHE]
    ELSE IF r.method = "GET" /\ UnderApi(r.path)
       THEN [handler |-> "networkFirst", cache |-> API_CACHE]
    ELSE IF r.dest = "image" \/ ImagePath(r.path)
       THEN [handler |-> "cacheFirst", cache |-> IMAGE_CACHE]
    ELSE IF r.dest = "script" \/ StaticPath(r.path)
       THEN [handler |-> "cacheFirst", cache |-> STATIC_CACHE]
    ELSE IF r.dest = "document"
       THEN [handler |-> "networkFirst", cache |-> DYNAMIC_CACHE]
    ELSE [handler |-> "staleWhileRevalidate", cache |-> DYNAMIC_CACHE]

Chosen == [handler |-> reply.handler, cache |-> reply.cache]

\* the worker answers the request itself
Answered(r) == r.sameOrigin /\ ~UnderChromeExtension(r.path)

\* C25 as stated: every request gets the strategy listed for its method, path
\* and destination.
C25_EveryRequest == reply.kind # "none" => Chosen = Listed(reply.req)

\* C25: every request of the worker's own origin whose path is not under
\* /chrome-extension/ gets the strategy listed for its method, path and
\* destination; the other requests get none and are left to the browser.
C25_StrategyByRequest ==
    reply.kind # "none" =>
       IF Answered(reply.req) THEN Chosen = Listed(reply.req)
       ELSE reply.handler = "none" /\ reply.kind = "default"

C25_Witness ==
    /\ reply.handler = "handleMutation"
    /\ reply.req.method = "DELETE"
    /\ reply.req.path = "/leads/export"

\* C26: under network-first the response is the network's whenever the
\* network answers ok, the cache is written exactly when it does, and when
\* the network call fails the copy held is returned, the request failing only
\* when there is none.
C26_NetworkFirst ==
    reply.handler = "networkFirst" =>
       /\ reply.net = "ok" => reply.kind = "network"
       /\ reply.wrote <=> reply.net = "ok"
       /\ (reply.net = "reject" /\ reply.copy # 0) =>
             (reply.kind = "cached" /\ reply.status = reply.copy)
       /\ (reply.net = "reject" /\ reply.copy = 0) =>
             reply.kind \notin {"network", "cached"}

\* a good copy in the cache of the strategy is not replaced by an error
C26_GoodCopyKept ==
    (reply.handler = "networkFirst" /\ reply.before = 200) =>
       swCaches[reply.cache][reply.req.path] = 200

\* the fallback of network-first alone
C26_Fallback ==
    (reply.handler = "networkFirst" /\ reply.net = "reject") =>
       IF reply.copy # 0 THEN reply.kind = "cached" /\ reply.status = reply.copy
       ELSE reply.kind \notin {"network", "cached"}

Throws(l) == l = "other"

\* variant: notifyListeners calls the listeners without try/catch
CaughtNever(l) == FALSE

\* notifyListeners: the call of a listener is wrapped in try/catch
Caught(l) == TRUE

\* the state of the page that the listeners write
Page == [toast |-> toast, syncEvents |-> syncEvents, syncStatus |-> syncStatus]

\* setSyncEvents: the entry is put in front and the log is cut to its limit
Logged(log, type) == SubSeq(<<type>> \o log, 1, Min(Len(log) + 1, LOG_LIMIT))

\* handleSyncEvent of App
AppHandles(pg, ev) ==
    IF ev.type = "syncCompleted"
    THEN [pg EXCEPT !.toast = "success", !.syncEvents = Logged(@, "success")]
    ELSE IF ev.type = "syncFailed"
    THEN [pg EXCEPT !.toast = "error", !.syncEvents = Logged(@, "error")]
    ELSE pg

\* handleSyncEvent of SyncStatusIndicator
IndicatorHandles(pg, ev) ==
    IF ev.type = "syncStarted" THEN [pg EXCEPT !.syncStatus.isSyncing = TRUE]
    ELSE IF ev.type = "syncCompleted"
    THEN [pg EXCEPT !.syncStatus = [isSyncing |-> FALSE, lastSyncTime |-> ev.timestamp]]
    ELSE IF ev.type = "syncFailed" THEN [pg EXCEPT !.syncStatus.isSyncing = FALSE]
    ELSE pg

Handles(l, pg, ev) ==
    IF l = "app" THEN AppHandles(pg, ev)
    ELSE IF l = "indicator" THEN IndicatorHandles(pg, ev)
    ELSE pg

\* notifyListeners(event, data) over the listeners ls, from the state d =
\* [page, heard, raised]; raised: an exception of a listener left the call
RECURSIVE NotifyListeners(_, _, _)
NotifyListeners(ls, ev, d) ==
    IF ls = << >> THEN d
    ELSE LET l == Head(ls)
             d1 == [d EXCEPT !.heard[l] = @ + 1] IN
         IF Throws(l)
         THEN IF Caught(l) THEN NotifyListeners(Tail(ls), ev, d1)
              ELSE [d1 EXCEPT !.raised = TRUE]
         ELSE NotifyListeners(Tail(ls), ev, [d1 EXCEPT !.page = Handles(l, @, ev)])

\* notifyListeners called n times in a row, as n message listeners do
RECURSIVE NotifyTimes(_, _, _)
NotifyTimes(n, ev, d) ==
    IF n = 0 \/ d.raised THEN d
    ELSE NotifyTimes(n - 1, ev, NotifyListeners(listeners, ev, d))

Fresh == [page |-> Page, heard |-> [l \in ListenerNames |-> 0], raised |-> FALSE]

Shows(d) ==
    /\ toast' = d.page.toast
    /\ syncEvents' = d.page.syncEvents
    /\ syncStatus' = d.page.syncStatus
    /\ heard' = d.heard

\* the listeners that are registered
Registered == {listeners[i] : i \in DOMAIN listeners}

\* addListener(listener) and removeListener(listener)
Added(ls, l) == IF \E i \in DOMAIN ls : ls[i] = l THEN ls ELSE Append(ls, l)
Dropped(ls, l) == SelectSeq(ls, LAMBDA x : x # l)

\* the effect of App runs for the first time: it subscribes, listens to the
\* worker and calls syncManager.init()
UI_AppMount ==
    /\ ~appMounted
    /\ msgListeners < MaxInits
    /\ appMounted' = TRUE
    /\ listeners' = Added(listeners, "app")
    /\ msgListeners' = msgListeners + 1
    /\ UNCHANGED <<toast, syncEvents, syncStatus, heard, uiDispatch, uiSnap, uiDup,
                   uiCycle, uiCount>>

\* wasOffline changes: the effect of App is cleaned up and runs again
UI_AppRerun ==
    /\ appMounted
    /\ msgListeners < MaxInits
    /\ listeners' = Added(Dropped(listeners, "app"), "app")
    /\ msgListeners' = msgListeners + 1
    /\ UNCHANGED <<appMounted, toast, syncEvents, syncStatus, heard, uiDispatch, uiSnap,
                   uiDup, uiCycle, uiCount>>

\* a component subscribes: syncManager.addListener(handleSyncEvent)
UI_Subscribe(l) ==
    /\ l \in {"indicator", "other"}
    /\ listeners' = Added(listeners, l)
    /\ listeners' # listeners
    /\ UNCHANGED <<msgListeners, appMounted, toast, syncEvents, syncStatus, heard,
                   uiDispatch, uiSnap, uiDup, uiCycle, uiCount>>

\* the component unmounts: removeListener
UI_Unsubscribe(l) ==
    /\ l \in {"indicator", "other"}
    /\ listeners' = Dropped(listeners, l)
    /\ listeners' # listeners
    /\ UNCHANGED <<msgListeners, appMounted, toast, syncEvents, syncStatus, heard,
                   uiDispatch, uiSnap, uiDup, uiCycle, uiCount>>

\* a message of the worker reaches the page: every message listener of
\* SyncService and that of App forward it to notifyListeners
UI_WorkerMessage(type, timestamp) ==
    /\ uiCount.msgs < MaxMessages
    /\ uiCount' = [uiCount EXCEPT !.msgs = @ + 1]
    /\ LET ev == [from |-> "worker",
                  type |-> IF type = "SYNC_COMPLETED" THEN "syncCompleted"
                           ELSE "syncFailed",
                  timestamp |-> timestamp, to |-> Registered]
           n == msgListeners + (IF appMounted THEN 1 ELSE 0) IN
       /\ Shows(NotifyTimes(n, ev, Fresh))
       /\ uiDup' = (uiDispatch = ev)
       /\ uiDispatch' = ev
    /\ uiSnap' = Page
    /\ UNCHANGED <<listeners, msgListeners, appMounted, uiCycle>>

\* syncAll of the page starts: notifyListeners('syncStarted')
UI_CycleStart ==
    /\ uiCycle # "running"
    /\ uiCount.cycles < MaxCycles
    /\ uiCount' = [uiCount EXCEPT !.cycles = @ + 1]
    /\ LET ev == [from |-> "cycle", type |-> "syncStarted", timestamp |-> 0,
                  to |-> Registered]
           d == NotifyListeners(listeners, ev, Fresh) IN
       /\ Shows(d)
       /\ uiCycle' = IF d.raised THEN "aborted" ELSE "running"
       /\ uiDispatch' = ev
    /\ uiDup' = FALSE
    /\ UNCHANGED <<listeners, msgListeners, appMounted, uiSnap>>

\* syncAll of the page ends: notifyListeners('syncCompleted') or, from the
\* catch, notifyListeners('syncFailed')
UI_CycleEnd ==
    /\ uiCycle = "running"
    /\ \E ok \in BOOLEAN, timestamp \in 1..2 :
          LET ev == [from |-> "cycle",
                     type |-> IF ok THEN "syncCompleted" ELSE "syncFailed",
                     timestamp |-> timestamp, to |-> Registered]
              d == NotifyListeners(listeners, ev, Fresh) IN
          /\ Shows(d)
          /\ uiCycle' = IF d.raised THEN "aborted"
                        ELSE IF ok THEN "completed" ELSE "failed"
          /\ uiDispatch' = ev
    /\ uiDup' = FALSE
    /\ UNCHANGED <<listeners, msgListeners, appMounted, uiSnap, uiCount>>

notUI == <<logVars, formVars, envVars, smVars, ssVars, daoVars, storeVars, swVars, authVars, reqVars>>

InitUI ==
    /\ online = TRUE
    /\ Constructed
    /\ smTimer = FALSE
    /\ ssPendingSync = FALSE
    /\ ssTimer = FALSE

NextUI ==
    \/ UI_AppMount /\ UNCHANGED notUI
    \/ UI_AppRerun /\ UNCHANGED notUI
    \/ (\E l \in ListenerNames : UI_Subscribe(l)) /\ UNCHANGED notUI
    \/ (\E l \in ListenerNames : UI_Unsubscribe(l)) /\ UNCHANGED notUI
    \/ (\E type \in {"SYNC_COMPLETED", "SYNC_FAILED"}, timestamp \in 1..2 :
           UI_WorkerMessage(type, timestamp)) /\ UNCHANGED notUI
    \/ UI_CycleStart /\ UNCHANGED notUI
    \/ UI_CycleEnd /\ UNCHANGED notUI

SpecUI == InitUI /\ [][NextUI]_vars

\* the last dispatch was a SYNC_COMPLETED message of the worker, received
\* by the page with App mounted
CompletedMessage ==
    appMounted /\ uiDispatch.from = "worker" /\ uiDispatch.type = "syncCompleted"

\* C28: a SYNC_COMPLETED message delivered a second time leaves the page as
\* the first delivery left it, and a SYNC_COMPLETED message is notified once
\* to each listener.
C28_DuplicateSyncCompleted ==
    CompletedMessage =>
       /\ uiDup => Page = uiSnap
       /\ \A l \in uiDispatch.to : heard[l] = 1

\* each listener is notified once of a message
C28_OncePerListener == CompletedMessage => \A l \in uiDispatch.to : heard[l] = 1

\* the page after the second delivery is the page after the first
C28_SameAfterSecond == (CompletedMessage /\ uiDup) => Page = uiSnap

\* the state of SyncStatusIndicator after the second delivery is that after
\* the first
C28_StatusSameAfterSecond ==
    (CompletedMessage /\ uiDup) => syncStatus = uiSnap.syncStatus

\* C29: every registered listener gets each event of a cycle, whatever the
\* listeners before it do, and no cycle is aborted by a listener.
C29_ListenersIsolated ==
    /\ uiDispatch.from = "cycle" => \A l \in uiDispatch.to : heard[l] = 1
    /\ uiCycle # "aborted"

C29_Witness ==
    /\ Len(listeners) = 3
    /\ listeners[1] = "other"
    /\ uiDispatch.from = "cycle"
    /\ uiDispatch.type = "syncCompleted"
    /\ uiDispatch.to = ListenerNames
    /\ uiCycle = "completed"
    /\ heard["app"] = 1

\* ===================================================== EnhancedApiService
\* src/src/api/ApiService.js: the tokens and refreshAccessToken.

NoToken == "none"
NoPromise == 0
Tokens == {"t1", "t2"}

\* saveTokens: a token is stored only when it is given
SaveTokens(a, r) ==
    /\ accessToken' = IF a # NoToken THEN a ELSE accessToken
    /\ refreshToken' = IF r # NoToken THEN r ELSE refreshToken

\* clearTokens
ClearTokens ==
    /\ accessToken' = NoToken
    /\ refreshToken' = NoToken

\* login: the tokens of the result are saved when it has an access token
API_Login(a, r) ==
    /\ logins < MaxLogins
    /\ logins' = logins + 1
    /\ SaveTokens(a, r)
    /\ UNCHANGED <<tokenRefreshPromise, promises, refreshInFlight, refreshCalls>>

\* logout: clearTokens in the finally
API_Logout ==
    /\ accessToken # NoToken \/ refreshToken # NoToken
    /\ ClearTokens
    /\ UNCHANGED <<tokenRefreshPromise, promises, refreshInFlight, refreshCalls, logins>>

\* the callers of a promise that came through request(), which clears the
\* tokens when the refresh is rejected
RequestAwaits(id) ==
    \E i \in 1..Len(refreshCalls) :
        refreshCalls[i].via = "request" /\ refreshCalls[i].got = id

\* refreshAccessToken, up to its first await. via: "request" is the call of
\* request() on a 401, made only with a refresh token; "direct" is a call of
\* the method on the exported instance.
\*  - a promise in the guard is returned as it is;
\*  - without a refresh token the inner function throws before any await:
\*    its finally sets the guard to null, and then the promise it returns,
\*    already rejected, is assigned to the guard;
\*  - otherwise the request is sent and the pending promise is the guard.
API_RefreshAccessToken(via) ==
    /\ Len(refreshCalls) < MaxRefreshCalls
    /\ via = "request" => refreshToken # NoToken
    /\ LET guard == tokenRefreshPromise
           id == Len(promises) + 1
           was == IF guard = NoPromise THEN "none" ELSE promises[guard]
           call(got, started) ==
               [via |-> via, guard |-> guard, was |-> was, token |-> refreshToken,
                got |-> got, started |-> started]
       IN IF guard # NoPromise
          THEN /\ refreshCalls' = Append(refreshCalls, call(guard, FALSE))
               /\ IF via = "request" /\ was = "rejected"
                  THEN ClearTokens
                  ELSE UNCHANGED <<accessToken, refreshToken>>
               /\ UNCHANGED <<tokenRefreshPromise, promises, refreshInFlight>>
          ELSE IF refreshToken = NoToken
          THEN /\ refreshCalls' = Append(refreshCalls, call(id, FALSE))
               /\ promises' = Append(promises, "rejected")
               /\ tokenRefreshPromise' = id
               /\ UNCHANGED <<accessToken, refreshToken, refreshInFlight>>
          ELSE /\ refreshCalls' = Append(refreshCalls, call(id, TRUE))
               /\ promises' = Append(promises, "pending")
               /\ tokenRefreshPromise' = id
               /\ refreshInFlight' = refreshInFlight + 1
               /\ UNCHANGED <<accessToken, refreshToken>>
    /\ UNCHANGED logins

RefreshOutcomes == {"ok", "http_error", "network_error", "bad_body"}

\* the rest of the inner function, once the request is answered: the tokens
\* of a good answer are saved, a response that is not ok clears them, and
\* the finally sets the guard to null
API_RefreshSettles(id, outcome, a, r) ==
    /\ id \in 1..Len(promises)
    /\ promises[id] = "pending"
    /\ promises' = [promises EXCEPT ![id] = IF outcome = "ok" THEN "fulfilled"
                                           ELSE "rejected"]
    /\ refreshInFlight' = refreshInFlight - 1
    /\ tokenRefreshPromise' = NoPromise
    /\ IF outcome = "ok" THEN SaveTokens(a, r)
       ELSE IF outcome = "http_error" \/ RequestAwaits(id) THEN ClearTokens
       ELSE UNCHANGED <<accessToken, refreshToken>>
    /\ UNCHANGED <<refreshCalls, logins>>

notAuth == <<logVars, formVars, envVars, smVars, ssVars, daoVars, storeVars, swVars, uiVars, reqVars>>

InitAuth ==
    /\ online = TRUE
    /\ Constructed
    /\ smTimer = FALSE
    /\ ssPendingSync = FALSE
    /\ ssTimer = FALSE

NextAuth ==
    \/ (\E a \in Tokens, r \in Tokens \cup {NoToken} : API_Login(a, r))
           /\ UNCHANGED notAuth
    \/ API_Logout /\ UNCHANGED notAuth
    \/ (\E via \in {"request", "direct"} : API_RefreshAccessToken(via))
           /\ UNCHANGED notAuth
    \/ (\E id \in 1..MaxRefreshCalls, outcome \in RefreshOutcomes,
           a \in Tokens, r \in Tokens \cup {NoToken} :
           API_RefreshSettles(id, outcome, a, r)) /\ UNCHANGED notAuth

SpecAuth == InitAuth /\ [][NextAuth]_vars

\* at most one refresh request is in flight
C30_OneInFlight == refreshInFlight <= 1

\* a call made while a refresh is pending gets the pending promise and sends
\* nothing
C30_PendingShared ==
    \A i \in 1..Len(refreshCalls) :
        refreshCalls[i].was = "pending" =>
            refreshCalls[i].got = refreshCalls[i].guard /\ ~refreshCalls[i].started

\* the guard holds a promise only while that promise is pending
C30_GuardCleared ==
    tokenRefreshPromise # NoPromise => promises[tokenRefreshPromise] = "pending"

\* a call made with a refresh token when no refresh is pending sends a request
C30_LaterCallStarts ==
    \A i \in 1..Len(refreshCalls) :
        (refreshCalls[i].was # "pending" /\ refreshCalls[i].token # NoToken) =>
            refreshCalls[i].started

\* C30: at most one refresh request is in flight; a call made while a
\* refresh is pending gets the same pending promise and sends no request;
\* once the refresh has settled, with success or with failure, the guard is
\* cleared and a later call starts a new refresh.
C30_SingleFlightRefresh ==
    /\ refreshInFlight <= 1
    /\ \A i \in 1..Len(refreshCalls) :
           refreshCalls[i].was = "pending" =>
               refreshCalls[i].got = refreshCalls[i].guard /\ ~refreshCalls[i].started
    /\ tokenRefreshPromise # NoPromise => promises[tokenRefreshPromise] = "pending"
    /\ \A i \in 1..Len(refreshCalls) :
           (refreshCalls[i].was # "pending" /\ refreshCalls[i].token # NoToken) =>
               refreshCalls[i].started

\* the calls of request() alone: the guard is cleared after every refresh
C30_ClearedForRequests ==
    (\A i \in 1..Len(refreshCalls) : refreshCalls[i].via = "request") =>
        (tokenRefreshPromise # NoPromise => promises[tokenRefreshPromise] = "pending")

\* ============================================ EnhancedApiService.request
\* src/src/api/ApiService.js: the retry loop of request().

\* the answers to one fetch: a status, a rejected fetch, or the abort of the
\* timeout
Statuses == {"200", "401", "404", "500"}
\* the 4xx answers that no token refresh is made for
ClientErrors == {"404"}
FetchOutcomes == Statuses \cup {"network", "abort"}

\* the wait before the retry made after an error
DelayUncapped(attempts) == BACKOFF_BASE_MS * 2^attempts
Delay(attempts) == Min(BACKOFF_BASE_MS * 2^attempts, BACKOFF_CAP_MS)

\* request(endpoint, {retries, requireAuth}) up to its first fetch
RQ_Call(retries, requireAuth) ==
    /\ rq.pc = "idle"
    /\ rq.calls < MaxApiCalls
    /\ rq' = [IdleRequest EXCEPT !.pc = "fetch", !.calls = rq.calls + 1,
                                 !.retries = retries, !.requireAuth = requireAuth]
    /\ UNCHANGED authVars

\* the timeout of the call fires: the signal of every fetch is aborted
RQ_Timeout ==
    /\ rq.pc \in {"fetch", "refreshing", "waiting"}
    /\ ~rq.aborted
    /\ rq' = [rq EXCEPT !.aborted = TRUE]
    /\ UNCHANGED authVars

\* the catch of the loop for an error that is neither an abort nor
\* 'Authentication failed'
Caught_Retry(r, answer) ==
    IF r.attempts < r.retries
    THEN [r EXCEPT !.pc = "waiting",
                   !.waits = Append(@, [attempts |-> r.attempts,
                                        ms |-> Delay(r.attempts)])]
    ELSE [r EXCEPT !.pc = "done",
                   !.result = IF answer = "network" THEN "network_error"
                              ELSE "http_error"]

\* one pass of the loop, from the fetch to the retry, the refresh or the exit
RQ_Fetch(answer) ==
    /\ rq.pc = "fetch"
    /\ rq.aborted => answer = "abort"
    /\ answer = "abort" => rq.aborted
    /\ LET r == [rq EXCEPT !.statuses = Append(@, answer)]
       IN IF answer = "abort"
          THEN /\ rq' = [r EXCEPT !.pc = "done", !.result = "aborted"]
               /\ UNCHANGED authVars
          ELSE IF /\ answer = "401" /\ rq.requireAuth /\ refreshToken # NoToken
                  /\ rq.attempts < rq.retries
          THEN /\ API_RefreshAccessToken("request")
               /\ rq' = [r EXCEPT !.pc = "refreshing",
                                  !.refreshes = @ + 1,
                                  !.awaiting = tokenRefreshPromise']
          ELSE IF answer = "200"
          THEN /\ rq' = [r EXCEPT !.pc = "done", !.result = "ok"]
               /\ UNCHANGED authVars
          ELSE /\ rq' = Caught_Retry(r, answer)
               /\ UNCHANGED authVars

\* the promise of refreshAccessToken has settled
RQ_Refreshed ==
    /\ rq.pc = "refreshing"
    /\ promises[rq.awaiting] # "pending"
    /\ IF promises[rq.awaiting] = "fulfilled"
       THEN /\ rq' = [rq EXCEPT !.pc = "fetch", !.attempts = @ + 1]
            /\ UNCHANGED authVars
       ELSE /\ rq' = [rq EXCEPT !.pc = "done", !.result = "auth_failed"]
            /\ ClearTokens
            /\ UNCHANGED <<tokenRefreshPromise, promises, refreshInFlight,
                           refreshCalls, logins>>

\* the wait is over
RQ_Waited ==
    /\ rq.pc = "waiting"
    /\ rq' = [rq EXCEPT !.pc = "fetch", !.attempts = @ + 1]
    /\ UNCHANGED authVars

notReq == <<logVars, formVars, envVars, smVars, ssVars, daoVars, storeVars, swVars, uiVars>>

InitReq ==
    /\ online = TRUE
    /\ Constructed
    /\ smTimer = FALSE
    /\ ssPendingSync = FALSE
    /\ ssTimer = FALSE

NextReq ==
    \/ (\E r \in {"t1", NoToken} : API_Login("t1", r))
           /\ UNCHANGED <<notReq, reqVars>>
    \/ (\E retries \in 0..MaxRetriesOption, requireAuth \in BOOLEAN :
           RQ_Call(retries, requireAuth)) /\ UNCHANGED notReq
    \/ RQ_Timeout /\ UNCHANGED notReq
    \/ (\E answer \in FetchOutcomes : RQ_Fetch(answer)) /\ UNCHANGED notReq
    \/ (\E id \in 1..MaxRefreshCalls, outcome \in RefreshOutcomes,
           r \in {"t2", NoToken} :
           API_RefreshSettles(id, outcome, "t2", r)) /\ UNCHANGED <<notReq, reqVars>>
    \/ RQ_Refreshed /\ UNCHANGED notReq
    \/ RQ_Waited /\ UNCHANGED notReq

SpecReq == InitReq /\ [][NextReq]_vars

\* the number of answers 401 the call got
Count401 == Cardinality({i \in 1..Len(rq.statuses) : rq.statuses[i] = "401"})

\* the retries made after a wait, and those made after a refresh
WaitsDone == Len(rq.waits) - (IF rq.pc = "waiting" THEN 1 ELSE 0)
RefreshesDone ==
    rq.refreshes - (IF rq.pc = "refreshing" \/ rq.result = "auth_failed" THEN 1 ELSE 0)

\* C31: one call of request() refreshes the token at most once, and a 401
\* that answers the retry made after the refresh ends the call with the
\* authentication error.
C31_SingleRefresh ==
    /\ rq.refreshes <= 1
    /\ (rq.refreshes >= 1 /\ Count401 >= 2) =>
           (rq.pc = "done" /\ rq.result = "auth_failed")

\* a call refreshes the token at most once
C31_AtMostOneRefresh == rq.refreshes <= 1

\* C32: no request is sent again after an answer 4xx.
C32_ClientErrorTerminal ==
    \A i \in 1..Len(rq.statuses) :
        rq.statuses[i] \in ClientErrors =>
            i = Len(rq.statuses) /\ rq.pc = "done"

\* an answer 5xx is sent again while retries are left
C32_ServerErrorRetried ==
    (/\ rq.pc \in {"waiting", "done"}
     /\ rq.statuses # <<>>
     /\ rq.statuses[Len(rq.statuses)] = "500") =>
        (rq.pc = "waiting" <=> rq.attempts < rq.retries)

\* at most retries + 1 fetches, the retries after a refresh counted with the
\* retries after an error
C39_AttemptsBounded ==
    /\ Len(rq.statuses) <= rq.retries + 1
    /\ rq.attempts <= rq.retries
    /\ rq.pc \in {"fetch", "done"} => rq.attempts = WaitsDone + RefreshesDone

\* each wait is min(1000 * 2^attempts, 10000) ms
C39_WaitLengths ==
    \A i \in 1..Len(rq.waits) :
        LET w == rq.waits[i]
        IN w.ms = (IF 1000 * 2^w.attempts < 10000 THEN 1000 * 2^w.attempts
                   ELSE 10000)

\* nothing is fetched after an abort, and the authentication failure ends
\* the call
C39_NoRetryAfterAbort ==
    /\ \A i \in 1..Len(rq.statuses) :
           rq.statuses[i] = "abort" => i = Len(rq.statuses) /\ rq.pc = "done"
    /\ rq.result \in {"aborted", "auth_failed"} => rq.pc = "done"

\* C39 as stated: at most retries + 1 fetches on one counter, every retry
\* made after a wait of min(1000 * 2^attempts, 10000) ms, and no retry after
\* an abort or an authentication failure.
C39_EveryRetryWaits ==
    /\ C39_AttemptsBounded
    /\ C39_WaitLengths
    /\ C39_NoRetryAfterAbort
    /\ rq.pc \in {"fetch", "done"} => rq.attempts = WaitsDone

\* C39: at most retries + 1 fetches on one counter; a retry made after an
\* error waits min(1000 * 2^attempts, 10000) ms and a retry made after a
\* token refresh does not wait; no retry after an abort or an authentication
\* failure.
C39_RetryBudget ==
    /\ C39_AttemptsBounded
    /\ C39_WaitLengths
    /\ C39_NoRetryAfterAbort

C39_Witness ==
    /\ rq.pc = "done"
    /\ rq.retries = MaxRetriesOption
    /\ Len(rq.statuses) = rq.retries + 1
    /\ rq.refreshes >= 1
    /\ Len(rq.waits) >= 1
    /\ rq.waits[Len(rq.waits)].attempts = 4
    /\ rq.result = "http_error"

\* ================================================ the form and its draft
\* src/src/context/FormContext.jsx (FormProvider), the second FormRenderer
\* of src/src/components/form/FormRenderer.jsx with hooks/useAutoSave.js,
\* and the draft and submission functions of
\* src/src/services/mediaUploadServices.js.

Impls == {"context", "renderer"}

\* a form is opened. y: whether the identifier y read by every call of a
\* function made by debounce() (utils/helper.js) is bound in the page; when
\* it is not, the call throws before it sets its timeout.
F_Open(impl, y) ==
    /\ form.pc = "closed"
    /\ form' = [ClosedForm EXCEPT !.pc = "editing", !.impl = impl, !.y = y]
    /\ UNCHANGED <<draftStore, savedForms, savedQueue, autosave>>

\* the autosave effect after a change of the form data or of the draft id:
\* FormProvider calls debouncedSaveDraft with the draft id of this render;
\* useAutoSave sets its timer and reads the draft id when it fires
Armed(f) ==
    IF f.impl = "context"
    THEN IF f.y /\ f.filled THEN [armed |-> TRUE, draftId |-> f.draftId]
         ELSE autosave
    ELSE [armed |-> TRUE, draftId |-> NoDraft]

\* a field changes
F_Edit ==
    /\ form.pc = "editing"
    /\ form.edits < MaxEdits
    /\ LET f == [form EXCEPT !.filled = TRUE, !.edits = @ + 1]
       IN /\ form' = f
          /\ autosave' = Armed(f)
    /\ UNCHANGED <<draftStore, savedForms, savedQueue>>

\* the id that saveDraft writes: the one given, or a new one
SavedId(id) == IF id # NoDraft THEN id ELSE form.ids + 1

\* the autosave timer fires: the draft is put under the id the timer has
\* (FormProvider) or the component has now (FormRenderer); SAVE_DRAFT, or the
\* route to the draft, makes it the draft id of the form
F_AutosaveFires ==
    /\ autosave.armed
    /\ LET id == IF form.impl = "context" THEN autosave.draftId ELSE form.draftId
           saved == SavedId(id)
           f == [form EXCEPT !.draftId = saved,
                             !.ids = IF id = NoDraft THEN saved ELSE @]
       IN /\ saved <= MaxDrafts
          /\ draftStore' = draftStore \cup {saved}
          /\ form' = f
          /\ autosave' = IF id = NoDraft /\ form.pc = "editing"
                         THEN Armed(f) ELSE NoTimer
    /\ UNCHANGED <<savedForms, savedQueue>>

\* the order of the writes of a submit
FirstStepDelete(impl) == "delete"
FirstStep(impl) == "persist"

\* submitForm / handleSubmit up to the first await
F_Submit ==
    /\ form.pc = "editing"
    /\ form.filled
    /\ form.submits < MaxSubmits
    /\ form' = [form EXCEPT !.pc = FirstStep(form.impl), !.submits = @ + 1,
                            !.closureDraft = form.draftId]
    /\ UNCHANGED <<draftStore, savedForms, savedQueue, autosave>>

\* handleSaveDraft of FormRenderer, called by the catch of handleSubmit:
\* triggerSave clears the timer and saves the draft
HandleSaveDraft ==
    /\ SavedId(form.draftId) <= MaxDrafts
    /\ draftStore' = draftStore \cup {SavedId(form.draftId)}
    /\ autosave' = NoTimer

\* the record of the submission is written, or the write fails
F_Persist(ok) ==
    /\ form.pc = "persist"
    /\ IF ok
       THEN /\ savedForms' = savedForms + 1
            /\ form' = [form EXCEPT !.pc = IF form.impl = "context" THEN "queue"
                                           ELSE "delete"]
            /\ UNCHANGED <<draftStore, autosave>>
       ELSE /\ UNCHANGED savedForms
            /\ IF form.impl = "context"
               THEN /\ form' = [form EXCEPT !.pc = "failed"]
                    /\ UNCHANGED <<draftStore, autosave>>
               ELSE /\ HandleSaveDraft
                    /\ form' = [form EXCEPT !.pc = "failed",
                                            !.draftId = SavedId(form.draftId),
                                            !.ids = IF form.draftId = NoDraft
                                                    THEN @ + 1 ELSE @]
    /\ UNCHANGED savedQueue

\* SyncQueueDAO.addToQueue of FormProvider.submitForm
F_Queue(ok) ==
    /\ form.pc = "queue"
    /\ savedQueue' = IF ok THEN savedQueue + 1 ELSE savedQueue
    /\ form' = [form EXCEPT !.pc = IF ok THEN "delete" ELSE "failed"]
    /\ UNCHANGED <<draftStore, savedForms, autosave>>

\* the draft the submit started with is deleted, and the form is marked as
\* submitted: SUBMIT_FORM clears the draft id and the data of FormProvider
F_Delete(ok) ==
    /\ form.pc = "delete"
    /\ IF form.closureDraft = NoDraft
       THEN /\ ok
            /\ form' = [form EXCEPT !.pc = "done",
                           !.draftId = IF form.impl = "context" THEN NoDraft ELSE @,
                           !.filled = IF form.impl = "context" THEN FALSE ELSE @]
            /\ UNCHANGED <<draftStore, autosave>>
       ELSE IF ok
       THEN /\ draftStore' = draftStore \ {form.closureDraft}
            /\ form' = [form EXCEPT
                           !.pc = "done",
                           !.removed = form.closureDraft,
                           !.draftId = IF form.impl = "context" THEN NoDraft ELSE @,
                           !.filled = IF form.impl = "context" THEN FALSE ELSE @]
            /\ UNCHANGED autosave
       ELSE IF form.impl = "context"
       THEN /\ form' = [form EXCEPT !.pc = "failed"]
            /\ UNCHANGED <<draftStore, autosave>>
       ELSE /\ HandleSaveDraft
            /\ form' = [form EXCEPT !.pc = "failed"]
    /\ UNCHANGED <<savedForms, savedQueue>>

notForm == <<logVars, envVars, smVars, ssVars, daoVars, storeVars, swVars, uiVars,
             authVars, reqVars>>

InitForm ==
    /\ online = TRUE
    /\ Constructed
    /\ smTimer = FALSE
    /\ ssPendingSync = FALSE
    /\ ssTimer = FALSE

NextForm ==
    \/ (\E impl \in Impls, y \in BOOLEAN : F_Open(impl, y)) /\ UNCHANGED notForm
    \/ F_Edit /\ UNCHANGED notForm
    \/ F_AutosaveFires /\ UNCHANGED notForm
    \/ F_Submit /\ UNCHANGED notForm
    \/ (\E ok \in BOOLEAN : F_Persist(ok)) /\ UNCHANGED notForm
    \/ (\E ok \in BOOLEAN : F_Queue(ok)) /\ UNCHANGED notForm
    \/ (\E ok \in BOOLEAN : F_Delete(ok)) /\ UNCHANGED notForm

SpecForm == InitForm /\ [][NextForm]_vars

\* C33: the draft of a submit is deleted only after the record of the
\* submission, and its queue entry, were written; when a write of the submit
\* fails the draft is still there; so the answers of a form that had a draft
\* are always in the draft or in the submission.
C33_DraftDeletedAfterPersist ==
    /\ form.removed # NoDraft =>
           (savedForms >= 1 /\ (form.impl = "context" => savedQueue >= 1))
    /\ (form.pc = "failed" /\ form.closureDraft # NoDraft /\ form.removed = NoDraft) =>
           form.closureDraft \in draftStore
    /\ (form.submits >= 1 /\ form.closureDraft # NoDraft) =>
           (form.closureDraft \in draftStore \/ savedForms >= 1)

C33_Witness ==
    /\ form.pc = "done"
    /\ form.removed # NoDraft
    /\ form.removed \notin draftStore
    /\ savedForms = 1

\* a failed write of the submission leaves the draft
C33_WitnessFailed ==
    /\ form.pc = "failed"
    /\ form.closureDraft # NoDraft
    /\ savedForms = 0

\* C40: once a submit has deleted the draft, the form has no draft.
C40_DraftNotRecreated ==
    (form.pc = "done" /\ form.removed # NoDraft) => draftStore = {}

\* =============================================== the sync event listener
\* src/public/service-worker.js:427-433 and the registrations of the page.

\* the tags that the page registers: sync-forms (utils/syncManager.js,
\* utils/serviceWorker.js), form-sync and media-upload-sync
\* (SyncService.registerWithServiceWorker, triggerBackgroundSync)
PageTags == {"sync-forms", "form-sync", "media-upload-sync"}

\* event.tag.startsWith('sync-')
StartsWithSync(tag) == tag \in {"sync-forms", "sync-media", "sync-general"}

\* registration.sync.register(tag) made by the page
SW_PageRegisters(tag) ==
    /\ swPhase = "active"
    /\ tag \notin syncTags
    /\ syncTags' = syncTags \cup {tag}
    /\ UNCHANGED <<online, swPhase, swCaches, requests, swNextId, syncAttempts,
                   backoff, reply, posted, swFetches, swLog>>

FiredInAll ==
    swLog["sync-forms"].fired + swLog["sync-media"].fired
    + swLog["sync-general"].fired + swLog["form-sync"].fired
    + swLog["media-upload-sync"].fired

\* the browser fires the sync event of a registered tag: the listener calls
\* processSyncEvent when the tag starts with 'sync-' and does nothing otherwise
SW_SyncEvent(tag) ==
    /\ swPhase = "active"
    /\ online
    /\ tag \in syncTags
    /\ FiredInAll < MaxSyncEvents
    /\ IF StartsWithSync(tag)
       THEN /\ SW_Sync(tag)
            /\ swLog' = [swLog EXCEPT ![tag] =
                 [fired |-> @.fired + 1,
                  ran |-> @.ran + 1,
                  gaveUp |-> @.gaveUp +
                      (IF (IF tag \in DOMAIN syncAttempts THEN syncAttempts[tag] ELSE 0) + 1
                              > MaxRetriesOf(tag)
                       THEN 1 ELSE 0),
                  failed |-> @.failed +
                      (IF \E id \in Queued(tag) :
                              /\ id \in DOMAIN requests'
                              /\ requests'[id].retries > requests[id].retries
                       THEN 1 ELSE 0)]]
       ELSE /\ syncTags' = syncTags \ {tag}
            /\ swLog' = [swLog EXCEPT ![tag].fired = @ + 1]
            /\ UNCHANGED <<online, swPhase, swCaches, requests, swNextId,
                           syncAttempts, backoff, reply, posted, swFetches>>

notBg == <<formVars, smVars, ssVars, daoVars, storeVars, uiVars, authVars, reqVars>>

NextBg ==
    \/ SW_Install /\ UNCHANGED notSW
    \/ SW_Activate /\ UNCHANGED notSW
    \/ (\E r \in Writes : SW_Fetch(r, MaxWrites)) /\ UNCHANGED notSW
    \/ SW_GoOffline /\ UNCHANGED notSW
    \/ SW_GoOnline /\ UNCHANGED notSW
    \/ (\E tag \in PageTags : SW_PageRegisters(tag)) /\ UNCHANGED notBg
    \/ (\E tag \in AllSyncTags : SW_SyncEvent(tag)) /\ UNCHANGED notBg
    \/ (\E tag \in SyncTags : SW_BackoffElapsed(tag)) /\ UNCHANGED notSW

SpecBg == InitSW /\ [][NextBg]_vars

\* C34: a sync event fired for a tag that the page registers makes the
\* worker run processSyncEvent for that tag.
C34_PageTagsProcessed ==
    \A tag \in PageTags \cup {"sync-media"} : swLog[tag].ran = swLog[tag].fired

\* the sync events of the tags that start with sync- are processed
C34_SyncPrefixProcessed ==
    \A tag \in SyncTags : swLog[tag].ran = swLog[tag].fired

\* C37: 'Max retries exceeded' is posted for a tag only after queued requests
\* of the tag failed in more than maxRetries sync events.
C37_GaveUpAfterFailures ==
    \A tag \in AllSyncTags :
        swLog[tag].gaveUp >= 1 => swLog[tag].failed > MaxRetriesOf(tag)

\* C38: the requests of the queue: none is deleted but after an ok answer to
\* its re-send, a failed re-send adds exactly one to retries, retries stays
\* within maxRetries, and a record at maxRetries is not sent and stays.
C38_QueueRecords ==
    [][\A id \in DOMAIN requests :
          /\ id \in DOMAIN requests'
          /\ requests'[id].retries \in {requests[id].retries, requests[id].retries + 1}
          /\ requests'[id].retries <= MaxRetriesOf(requests[id].tag)
          /\ requests[id].retries >= MaxRetriesOf(requests[id].tag) =>
                 requests'[id].sent = requests[id].sent]_vars

\* a queued request has been sent again
C38_NeverSent == \A id \in DOMAIN requests : requests[id].sent = 0

\* C35: a submission whose delivery failed is taken up again: none rests in
\* status error unless the drain that sent it is about to count the retry and
\* write it back as pending or failed.
C35_NoStuckError ==
    \A s \in DOMAIN subs :
        subs[s].status = "error" =>
            \E t \in TaskIds : task[t].cur = s /\ task[t].pc = "retry"

\* a delivery that failed inside syncForms has been counted and the submission
\* is pending again, to be selected once its nextRetry is reached
C35_DrainFailureRequeued ==
    \E s \in DOMAIN subs :
        /\ subs[s].status = "pending"
        /\ subs[s].syncRetries >= 1

\* C36: an upload-queue entry that is completed or failed never changes
\* again, whatever the interleaving of processUploadQueue and uploadMedia.
C36_TerminalStays ==
    [][\A m \in DOMAIN upq :
          upq[m].status \in {"completed", "failed"} => upq'[m] = upq[m]]_vars

\* the retry counter of an upload-queue entry stays within the limit, and an
\* entry at the limit is failed or was written by an upload that ended
C36_RetryCountBounded ==
    \A m \in DOMAIN upq : upq[m].retryCount <= UPLOAD_RETRY_LIMIT
====
